---- MODULE Spec2Model ----
(***************************************************************************)
(* A model of the Zelix STL containers and memory layer:                   *)
(*   - pmr::vector            (zelix/container/vector.h)                   *)
(*   - pmr::shared_ptr        (zelix/shared_ptr.h, RC mode)                *)
(*   - pmr::lazy_allocator    (zelix/memory/allocator.h)                   *)
(*   - pmr::ring_buffer       (zelix/container/ring_buffer.h)              *)
(*   - pmr::ostream           (zelix/io.h)                                 *)
(* Every component has its own variables and its own specification; the    *)
(* variables of the other components stay unchanged in it.                 *)
(***************************************************************************)
EXTENDS Integers, Sequences, FiniteSets, TLC

(***************************************************************************)
(* Bounds of the model.                                                    *)
(***************************************************************************)
\* push_back / emplace_back is offered while size < MaxLen
MaxLen == 4
\* array blocks that can be live in the heap at the same time
MaxBlocks == 2
\* width in bits of the modelled size_t (the counters wrap modulo 2^WordBits)
WordBits == 4
\* reserve(n) is offered for n in 1..MaxReserve
MaxReserve == 3
\* pages a lazy allocator may hold
MaxPages == 3
\* shared_ptr handles (variables of type shared_ptr) in the program
NumHandles == 3
\* the longest source array handed to ring_buffer::write
MaxBuf == 4
\* the longest string inserted into an ostream at once
MaxStr == 4
\* the bytes inserted into an ostream over its lifetime
MaxTotal == 5
\* the objects of a non-trivial element type constructed over a run
MaxObjs == 4
\* the threads sharing one object through atomic shared pointers
NumThreads == 3
\* the handles a thread holds at once
MaxOwned == 2
\* the length of the string a thread inserts into the concurrent ostream
InsLen == 2
\* the longest array handed to string::push or to a string constructor
MaxPush == 2
\* the largest capacity an owned string grows to
MaxCapacity == 8
\* the longest word inserted into a trie
MaxWord == 2
\* the calls of alphabetic_trie::insert over a run
MaxInserts == 3
\* the nodes a delist may hold at once
MaxNodes == 3
\* the elements of each of two vectors looked at together
MaxPairLen == 3
\* the bits of the signed integer type of itoa
LongBits == 7

(***************************************************************************)
(* Program constants.                                                      *)
(***************************************************************************)
\* nullptr
Null == 0
\* vector(): capacity_(10)
DefaultCapacity == 10

SizeMod == 2 ^ WordBits
Val == {1, 2}
Min(a, b) == IF a <= b THEN a ELSE b

\* template parameters <GrowthFactor = num/den, InitialCapacity = ic>
\* template parameter <Capacity> of lazy_allocator: the slots of a page
PageCapacities == {1, 2}
MaxPageCapacity == CHOOSE c \in PageCapacities : \A d \in PageCapacities : d <= c

TParams ==
    { [ic |-> 1, num |-> 3, den |-> 2],
      [ic |-> 2, num |-> 2, den |-> 1],
      [ic |-> 3, num |-> 3, den |-> 2] }

VARIABLES
    tp,      \* the template parameters of the vectors
    vec,     \* the fields of the vector
    heap,    \* the live array blocks, as pairs <<pointer, length>>
    vdf,     \* some pointer was released that was not live
    vub,     \* an element was written outside its storage
    vhist,   \* "released": the last call was a pop_back that released the
             \* storage; "reborn": it was the emplace_back right after one
    lcap,    \* the template parameter Capacity of the lazy allocators
    la,      \* a lazy_allocator: its pages, its free list, the live pointers
    lhist,   \* what the allocator did so far (see LaAlloc)
    sp,      \* sp[h]: the fields of shared_ptr handle h (or that it is dead)
    objA,    \* the monotonic resource of the managed objects
    rcA,     \* the monotonic resource of the reference counts
    rcVal,   \* rcVal[c]: the int stored in count cell c
    sbad,    \* a shared_ptr read or wrote a count cell that is not live
    slast,   \* the last shared_ptr operation and the count it found
    ring,    \* a ring_buffer<char, Max>: [max, data, head, oob]
    rlast,   \* the last ring_buffer operation: its name, the head it found,
             \* the source array and the count it was given
    os,      \* an ostream: its ring buffer, the bytes written to the file
             \* descriptor, whether it is still alive
    oins,    \* every byte inserted into the ostream so far, in order
    olast,   \* the last ostream operation and the bytes pending before it
    nvec,    \* a vector of a non-trivial T: [v, dt, cl, next, ub]
    nlast,   \* the last operation on that vector
    athr,    \* per thread: where it is in a shared_ptr<T, true> method (pc)
             \* and how many handles to the shared object it holds (owned)
    acell,   \* the shared object and its atomic count: [count, obj, rc, bad]
    mres,    \* the lazy_allocator of a monotonic_system_resource<T>:
             \* [pages, size, data, dup, broken]
    mthr,    \* per thread: where it is in allocate or deallocate (pc), its
             \* local pointer (p) and index (h), the pointers it owns (owned)
    cos,     \* a stl::concurrent_ostream shared by two threads
    cthr,    \* per writing thread: where it is in its insertion (pc), the
             \* index of the next character (i), the cursor it has read (h)
    str,     \* an owned string: [buffer, len, max_capacity, capacity, data,
             \* hang, oob]
    strlast, \* the last string operation, its argument, the string before
    trie,    \* an alphabetic_trie: its nodes, the root first
    tins,    \* the words insert was called with, and the number of calls
    up,      \* up[h]: unique_ptr variable h, [alive, ptr]
    uobj,    \* the objects of the unique_ptrs: [next, live, freed, raw]
    sres,    \* a vector over system_array_resource and the objects taken
             \* from system_resource, where the raw allocator may fail
    srlast,  \* the last allocation: what the raw allocator did, what the
             \* resource reported
    stm,     \* a stream: [data, pos]
    stmlast, \* the last call on the stream: [op, arg, pre, ret]
    mp,      \* the shared pointers of zelix/memory: [hs, val, live, cells,
             \* next, stray, badfree]
    mplast,  \* the last call on them: [op, k, cell, live, cells]
    dl,      \* a delist: [len, head, tail, nodes, live]
    dllast,  \* the last call on the delist: [op, empty]
    rl,      \* a call of system_array_resource<T>::reallocate, T not trivial
    sb,      \* a string and the lifetime of its buffer: [s, alive, dangling,
             \* uaf, dfree]
    ld,      \* a lazy_allocator<T>, T with a destructor, over its lifetime:
             \* [a, alive, built, twice]
    pv,      \* two vectors over one heap: [x, alive, h, df, ub]
    pvlast,  \* the last construction or assignment from another vector:
             \* [op, k, o, src, had], "other" after any other call
    mm,      \* a divisor, its magic number and the last mod: [b, magic, a, r, op]
    it       \* the last call of itoa: [op, value, ptr, ret, trapped]

(***************************************************************************)
(* The raw allocator under system_array_resource<T>, T trivial.            *)
(* A result is [p |-> pointer, h |-> heap after, df |-> bad release].      *)
(***************************************************************************)
BlockIds == 1..MaxBlocks
LiveIds(h) == {b[1] : b \in h}
HasRoom(h) == BlockIds \ LiveIds(h) # {}
FreshId(h) ==
    CHOOSE b \in BlockIds \ LiveIds(h) : \A c \in BlockIds \ LiveIds(h) : b <= c
BlockLen(h, p) == (CHOOSE b \in h : b[1] = p)[2]

\* malloc(sizeof(T) * n): a block of n slots; malloc(0) may also return null
array_allocate(h, n) ==
    (IF HasRoom(h)
        THEN {[p |-> FreshId(h), h |-> h \cup {<<FreshId(h), n>>}, df |-> FALSE]}
        ELSE {})
    \cup (IF n = 0 THEN {[p |-> Null, h |-> h, df |-> FALSE]} ELSE {})

\* realloc(ptr, sizeof(T) * n): in place, or moved to a new block;
\* realloc(ptr, 0) may release the block and return null
array_reallocate(h, p, n) ==
    LET rest == {b \in h : b[1] # p}
        bad == p \notin LiveIds(h)
    IN  {[p |-> p, h |-> rest \cup {<<p, n>>}, df |-> bad]}
        \cup (IF n = 0 THEN {[p |-> Null, h |-> rest, df |-> bad]} ELSE {})
        \cup (IF n > 0 /\ HasRoom(h)
                THEN {[p |-> FreshId(h), h |-> rest \cup {<<FreshId(h), n>>}, df |-> bad]}
                ELSE {})

\* free(ptr)
array_deallocate(h, p) ==
    IF p = Null THEN [h |-> h, df |-> FALSE]
    ELSE IF p \in LiveIds(h) THEN [h |-> {b \in h : b[1] # p}, df |-> FALSE]
    ELSE [h |-> h, df |-> TRUE]

(***************************************************************************)
(* pmr::vector.  The methods are operators on s = [v, h, df, ub]: the      *)
(* vector's fields, the heap and the two error flags.  A method that       *)
(* allocates yields the set of its possible results.                       *)
(***************************************************************************)
DefaultVec ==
    [init |-> FALSE, data |-> Null, size |-> 0, cap |-> DefaultCapacity, elems |-> <<>>]

Prefix(q, n) == SubSeq(q, 1, Min(n, Len(q)))

\* vector::init
vector_init(s) ==
    { [s EXCEPT !.v.init = TRUE, !.v.cap = tp.ic, !.v.data = a.p, !.h = a.h]
        : a \in array_allocate(s.h, tp.ic) }

\* vector::resize
vector_resize(s, new_size) ==
    IF s.v.data = Null
        THEN { [s EXCEPT !.v.data = a.p, !.v.cap = new_size, !.h = a.h]
                 : a \in array_allocate(s.h, new_size) }
        ELSE { [s EXCEPT !.v.data = a.p, !.v.cap = new_size, !.h = a.h,
                         !.v.elems = Prefix(@, new_size), !.df = @ \/ a.df]
                 : a \in array_reallocate(s.h, s.v.data, new_size) }

\* vector::aggressive_destroy
vector_aggressive_destroy(s) ==
    IF ~s.v.init \/ s.v.data = Null THEN s
    ELSE LET d == array_deallocate(s.h, s.v.data)
         IN  [s EXCEPT !.h = d.h, !.df = @ \/ d.df, !.v.data = Null]

\* vector::destroy (T trivially copyable: no element destructors)
vector_destroy(s) ==
    IF s.v.init THEN vector_aggressive_destroy(s) ELSE s

\* static_cast<size_t>(capacity_ * GrowthFactor)
GrowCapacity(c) == (c * tp.num) \div tp.den

\* the store data[size_] = val; ++size_ at the end of emplace_back
vector_store(s, val) ==
    IF s.v.data = Null \/ s.v.size >= s.v.cap
        THEN [s EXCEPT !.ub = TRUE, !.v.size = (@ + 1) % SizeMod]
        ELSE [s EXCEPT !.v.elems = Append(Prefix(@, s.v.size), val),
                       !.v.size = (@ + 1) % SizeMod]

\* vector::emplace_back (push_back forwards to it)
vector_emplace_back(s, val) ==
    LET s1 == IF ~s.v.init THEN vector_init(s) ELSE {s}
        s2 == UNION { IF a.v.size >= a.v.cap
                        THEN vector_resize(a, GrowCapacity(a.v.cap))
                        ELSE {a} : a \in s1 }
    IN  { vector_store(a, val) : a \in s2 }

\* a pop_back that only decrements size_ and never releases the storage
vector_pop_back_keeps_storage(s) ==
    IF s.v.size > 0
        THEN [s EXCEPT !.v.size = @ - 1, !.v.elems = Prefix(@, s.v.size - 1)]
        ELSE s

\* vector::pop_back
vector_pop_back(s) ==
    IF s.v.size > 0
        THEN LET s1 == [s EXCEPT !.v.size = @ - 1, !.v.elems = Prefix(@, s.v.size - 1)]
             IN  IF s1.v.size = 0 /\ s1.v.init
                    THEN [vector_destroy(s1) EXCEPT !.v.init = FALSE,
                                                    !.v.data = Null,
                                                    !.v.cap = 0]
                    ELSE s1
        ELSE s

\* vector::pop_back_move: --size_ with no check
vector_pop_back_move(s) ==
    [s EXCEPT !.v.size = (@ - 1) % SizeMod,
              !.v.elems = Prefix(@, (s.v.size - 1) % SizeMod)]

\* vector::clear
vector_clear(s) == [s EXCEPT !.v.size = 0, !.v.elems = <<>>]

\* vector::shrink_to_fit
vector_shrink_to_fit(s) ==
    IF s.v.size < s.v.cap THEN vector_resize(s, s.v.size) ELSE {s}

\* vector::reserve
vector_reserve(s, n) ==
    IF n > s.v.cap
        THEN { [a EXCEPT !.v.init = TRUE] : a \in vector_resize(s, n) }
        ELSE {s}

\* a copy assignment that takes the other vector's storage as its own
vector_copy_assign_shares(s, other) ==
    LET s1 == vector_destroy(s)
    IN  { [s1 EXCEPT !.v = other] }

\* vector::operator=(const vector&), this # &other
vector_copy_assign(s, other) ==
    LET s1 == vector_destroy(s)
        s2 == [s1 EXCEPT !.v.init = other.init, !.v.size = other.size,
                         !.v.cap = other.cap]
    IN  IF other.data # Null
            THEN { [s2 EXCEPT !.v.data = a.p, !.h = a.h,
                              !.v.elems = other.elems,
                              !.ub = @ \/ other.size > other.cap]
                     : a \in array_allocate(s2.h, s2.v.cap) }
            ELSE { [s2 EXCEPT !.v.data = Null, !.v.elems = <<>>] }

\* vector::operator=(vector&&), this # &other: the fields of this afterwards
\* (other is left as MovedFrom)
vector_move_assign(s, other) ==
    [vector_destroy(s) EXCEPT !.v = other]

\* the moved-from vector
MovedFrom ==
    [init |-> FALSE, data |-> Null, size |-> 0, cap |-> 0, elems |-> <<>>]

\* vector::~vector
vector_destructor(s) == vector_destroy(s)

(***************************************************************************)
(* The other operand of an assignment is a second vector, built from a     *)
(* default-constructed one by a short script of pushes and pops and        *)
(* destroyed after the assignment.                                         *)
(***************************************************************************)
OtherScripts ==
    { <<>>, <<1>>, <<2>>, <<1, 2>>, <<2, 1>>, <<1, 0>> }

RECURSIVE RunScript(_, _)
\* the states a default-constructed vector reaches by the script
\* (n > 0: push_back(n), 0: pop_back), from the set S of states
RunScript(S, script) ==
    IF script = <<>> THEN S
    ELSE RunScript(
            UNION { IF Head(script) = 0
                        THEN {vector_pop_back(a)}
                        ELSE vector_emplace_back(a, Head(script)) : a \in S },
            Tail(script))

OtherVectors(h) ==
    UNION { RunScript({[v |-> DefaultVec, h |-> h, df |-> FALSE, ub |-> FALSE]}, sc)
              : sc \in OtherScripts }

(***************************************************************************)
(* memory::pmr::page and memory::pmr::lazy_allocator.  A pointer is         *)
(* <<page, slot>>; NullPtr is the null pointer.  An allocator is           *)
(*   [pages |-> the offset of every page, in list order,                   *)
(*    free  |-> the free list (a vector used as a stack),                  *)
(*    live  |-> the pointers handed out and not yet returned,              *)
(*    dup   |-> alloc handed out a pointer that was live,                  *)
(*    bad   |-> dealloc was given a pointer that was not live]             *)
(***************************************************************************)
NullPtr == <<>>
Slots == {<<pg, sl>> : pg \in 1..MaxPages, sl \in 0..(MaxPageCapacity - 1)}

EmptyAllocator ==
    [pages |-> <<>>, free |-> <<>>, live |-> {}, dup |-> FALSE, bad |-> FALSE]

\* a page that reports full one slot early
page_full_early(offset) == offset + 1 >= lcap

\* page::full
page_full(offset) == offset >= lcap

\* pages.emplace_back(): a new page, offset 0, at the tail of the list
pages_emplace_back(pages) == Append(pages, 0)

\* an alloc that takes the oldest pointer of the free list
lazy_alloc_ptr_fifo(a) ==
    IF a.free # <<>> THEN a.free[1]
    ELSE LET pg == IF a.pages = <<>> THEN Append(a.pages, 0) ELSE a.pages
             pg2 == IF pg[Len(pg)] >= lcap THEN Append(pg, 0) ELSE pg
         IN  <<Len(pg2), pg2[Len(pg2)]>>

\* the pointer lazy_allocator::alloc returns
lazy_alloc_ptr(a) ==
    IF a.free # <<>> THEN a.free[Len(a.free)]
    ELSE LET pg == IF a.pages = <<>> THEN pages_emplace_back(a.pages) ELSE a.pages
             pg2 == IF page_full(pg[Len(pg)]) THEN pages_emplace_back(pg) ELSE pg
         IN  <<Len(pg2), pg2[Len(pg2)]>>

\* an alloc that reads the top of the free list without popping it
lazy_alloc_keeps_free_list(a) ==
    LET p == lazy_alloc_ptr(a)
    IN  IF a.free # <<>>
            THEN [a EXCEPT !.live = @ \cup {p}, !.dup = @ \/ p \in a.live]
            ELSE [a EXCEPT !.live = @ \cup {p}, !.dup = @ \/ p \in a.live,
                           !.pages = IF @ = <<>> THEN <<1>>
                                     ELSE IF page_full(@[Len(@)]) THEN Append(@, 1)
                                     ELSE [@ EXCEPT ![Len(@)] = @ + 1]]

\* lazy_allocator::alloc (with page::alloc): the allocator afterwards
lazy_alloc(a) ==
    LET p == lazy_alloc_ptr(a)
        handed == [a EXCEPT !.live = @ \cup {p}, !.dup = @ \/ p \in a.live]
    IN  IF a.free # <<>>
            THEN [handed EXCEPT !.free = SubSeq(@, 1, Len(@) - 1)]
            ELSE LET pg == IF a.pages = <<>> THEN pages_emplace_back(a.pages)
                                             ELSE a.pages
                     pg2 == IF page_full(pg[Len(pg)]) THEN pages_emplace_back(pg)
                                                      ELSE pg
                 IN  [handed EXCEPT !.pages = [pg2 EXCEPT ![Len(pg2)] = @ + 1]]

\* alloc stays within the pages the model offers
lazy_can_alloc(a) ==
    \/ a.free # <<>>
    \/ Len(a.pages) < MaxPages
    \/ (a.pages # <<>> /\ ~page_full(a.pages[Len(a.pages)]))

\* lazy_allocator::dealloc
lazy_dealloc(a, p) ==
    [a EXCEPT !.free = Append(@, p),
              !.live = @ \ {p},
              !.bad = @ \/ p \notin a.live]

(***************************************************************************)
(* pmr::shared_ptr<T, false, false> (zelix/shared_ptr.h).  The methods are *)
(* operators on st = [hs, oa, ra, val, bad]: the handles, the resource of  *)
(* the objects, the resource of the counts, the counts' values, and the    *)
(* flag of an access to a count cell that is not live.                     *)
(***************************************************************************)
Handles == 1..NumHandles
NullHandle == [alive |-> TRUE, ptr |-> NullPtr, rc |-> NullPtr]
DeadHandle == [alive |-> FALSE, ptr |-> NullPtr, rc |-> NullPtr]

\* ++(*c), --(*c) and *c = n on a count cell
cell_write(st, c, n) ==
    [st EXCEPT !.val[c] = n, !.bad = @ \/ c \notin st.ra.live]

\* shared_ptr::destroy
shared_ptr_destroy(st, h) ==
    IF st.hs[h].ptr = NullPtr THEN st
    ELSE [st EXCEPT !.oa = lazy_dealloc(@, st.hs[h].ptr),
                    !.ra = lazy_dealloc(@, st.hs[h].rc),
                    !.hs[h].rc = NullPtr,
                    !.hs[h].ptr = NullPtr]

\* an add_ref_count that forgets the increment
shared_ptr_add_ref_count_skipped(st, h) == st

\* shared_ptr::add_ref_count
shared_ptr_add_ref_count(st, h) ==
    IF st.hs[h].rc # NullPtr
        THEN cell_write(st, st.hs[h].rc, st.val[st.hs[h].rc] + 1)
        ELSE st

\* a release that destroys the object whatever the count
shared_ptr_release_always_destroys(st, h) ==
    IF st.hs[h].rc # NullPtr
        THEN shared_ptr_destroy(cell_write(st, st.hs[h].rc, st.val[st.hs[h].rc] - 1), h)
        ELSE st

\* if (ref_count && --(*ref_count) == 0) destroy();
shared_ptr_release(st, h) ==
    IF st.hs[h].rc # NullPtr
        THEN LET c == st.hs[h].rc
                 s1 == cell_write(st, c, st.val[c] - 1)
             IN  IF s1.val[c] = 0 THEN shared_ptr_destroy(s1, h) ELSE s1
        ELSE st

\* shared_ptr(Args&&...): allocate the object and the count, count = 1
shared_ptr_construct(st, h) ==
    LET p == lazy_alloc_ptr(st.oa)
        c == lazy_alloc_ptr(st.ra)
        s1 == [st EXCEPT !.oa = lazy_alloc(@), !.ra = lazy_alloc(@),
                         !.hs[h] = [alive |-> TRUE, ptr |-> p, rc |-> c]]
    IN  cell_write(s1, c, 1)

\* shared_ptr(nullptr_t)
shared_ptr_construct_null(st, h) == [st EXCEPT !.hs[h] = NullHandle]

\* shared_ptr(const shared_ptr &other), shared_ptr(shared_ptr &other)
shared_ptr_copy_construct(st, h, o) ==
    shared_ptr_add_ref_count(
        [st EXCEPT !.hs[h] = [alive |-> TRUE, ptr |-> st.hs[o].ptr, rc |-> st.hs[o].rc]],
        h)

\* shared_ptr(shared_ptr &&other): the source keeps its slots
shared_ptr_move_construct(st, h, o) ==
    shared_ptr_add_ref_count(
        [st EXCEPT !.hs[h] = [alive |-> TRUE, ptr |-> st.hs[o].ptr, rc |-> st.hs[o].rc]],
        h)

\* shared_ptr::operator=(const shared_ptr &other)
shared_ptr_copy_assign(st, h, o) ==
    IF h = o THEN st
    ELSE LET s1 == shared_ptr_release(st, h)
             s2 == [s1 EXCEPT !.hs[h].rc = s1.hs[o].rc, !.hs[h].ptr = s1.hs[o].ptr]
         IN  shared_ptr_add_ref_count(s2, h)

\* a move assignment that leaves the source its pointer and count
shared_ptr_move_assign_keeps_source(st, h, o) ==
    IF h = o THEN st
    ELSE LET s1 == shared_ptr_release(st, h)
         IN  [s1 EXCEPT !.hs[h].ptr = s1.hs[o].ptr,
                        !.hs[h].rc = s1.hs[o].rc]

\* shared_ptr::operator=(shared_ptr &&other)
shared_ptr_move_assign(st, h, o) ==
    IF h = o THEN st
    ELSE LET s1 == shared_ptr_release(st, h)
         IN  [s1 EXCEPT !.hs[h].ptr = s1.hs[o].ptr,
                        !.hs[h].rc = s1.hs[o].rc,
                        !.hs[o].ptr = NullPtr,
                        !.hs[o].rc = NullPtr]

\* shared_ptr::~shared_ptr
shared_ptr_destructor(st, h) ==
    LET s1 == IF st.hs[h].ptr = NullPtr THEN st ELSE shared_ptr_release(st, h)
    IN  [s1 EXCEPT !.hs[h] = DeadHandle]

(***************************************************************************)
(* pmr::ring_buffer<char, Max, UseHeap>.  A buffer is                      *)
(*   [max  |-> the template parameter Max,                                 *)
(*    data |-> the array, indices 0..max-1,                                *)
(*    head |-> the cursor,                                                 *)
(*    oob  |-> an element was stored at an index >= max]                   *)
(* A source array is a sequence; the bytes read past its end are taken     *)
(* from junk, which the caller of an operator chooses freely.              *)
(***************************************************************************)
Byte == {1, 2}
\* template parameter <Max> of the ring buffer
RingCapacities == {3}
\* template parameter <Capacity> of the ostream
OsCapacities == {2, 3}

SeqsUpTo(n) == UNION { [1..k -> Byte] : k \in 0..n }
\* what lies behind an array: two bytes, repeating
JunkSeqs == [1..2 -> Byte]

\* the byte at src[j] (0-based), read past the end of the array if j >= Len
ReadAt(src, junk, j) ==
    IF j < Len(src) THEN src[j + 1] ELSE junk[((j - Len(src)) % Len(junk)) + 1]

\* the count bytes at src + off
BytesFrom(src, junk, off, count) ==
    [i \in 1..count |-> ReadAt(src, junk, off + i - 1)]

\* ring_buffer::ring_buffer
NewRing(max, content) == [max |-> max, data |-> content, head |-> 0, oob |-> FALSE]

\* ring_buffer::full
ring_full(rb) == rb.head >= rb.max

\* ring_buffer::pos
ring_pos(rb) == rb.head

\* ring_buffer::flush
ring_flush(rb) == [rb EXCEPT !.head = 0]

\* ring_buffer::emplace_back
ring_emplace_back(rb, v) ==
    LET h == IF rb.head >= rb.max THEN 0 ELSE rb.head
    IN  [rb EXCEPT !.data[h] = v, !.head = h + 1]

\* a push_back that does not wrap a full buffer
ring_push_back_no_wrap(rb, v) ==
    [rb EXCEPT !.data[rb.head] = v, !.head = rb.head + 1]

\* ring_buffer::push_back (T trivially copyable: data[head++] = value)
ring_push_back(rb, v) ==
    LET h == IF rb.head >= rb.max THEN 0 ELSE rb.head
    IN  [rb EXCEPT !.data[h] = v, !.head = h + 1]

\* ring_buffer::advance
ring_advance(rb) ==
    IF rb.head >= rb.max THEN [rb EXCEPT !.head = 0]
    ELSE [rb EXCEPT !.head = @ + 1]

\* ring_buffer::unsafe_copy: memcpy(data + head, bytes, Len(bytes))
ring_unsafe_copy(rb, bytes) ==
    [rb EXCEPT
        !.data = [i \in DOMAIN rb.data |->
                    IF i >= rb.head /\ i < rb.head + Len(bytes)
                        THEN bytes[i - rb.head + 1]
                        ELSE rb.data[i]],
        !.oob = @ \/ rb.head + Len(bytes) > rb.max]

\* ring_buffer::write<true>
ring_write_checked(rb, buf, count, junk) ==
    IF rb.head + count >= rb.max
        THEN LET what_fits == rb.max - rb.head
                 r1 == ring_unsafe_copy(rb, BytesFrom(buf, junk, 0, what_fits))
                 r2 == [r1 EXCEPT !.head = 0]
                 r3 == ring_unsafe_copy(r2,
                          BytesFrom(buf, junk, count, count - what_fits))
             IN  [r3 EXCEPT !.head = @ + (count - what_fits)]
        ELSE [ring_unsafe_copy(rb, BytesFrom(buf, junk, 0, count))
                EXCEPT !.head = @ + count]

\* ring_buffer::write<false>
ring_write_unchecked(rb, buf, count, junk) ==
    [ring_unsafe_copy(rb, BytesFrom(buf, junk, 0, count)) EXCEPT !.head = @ + count]

(***************************************************************************)
(* pmr::ostream<FD, Capacity>.  An ostream is                              *)
(*   [buffer |-> its ring buffer,                                          *)
(*    fd     |-> the bytes write(2) has put on the file descriptor,        *)
(*    alive  |-> it was not destroyed yet]                                 *)
(* write(2) is taken to write all the bytes it is given.                   *)
(***************************************************************************)
\* the bytes at buffer.ptr()[0 .. n): past the array they are junk
BufferBytes(rb, n, junk) ==
    [i \in 1..n |-> IF i - 1 < rb.max THEN rb.data[i - 1]
                    ELSE junk[((i - 1 - rb.max) % Len(junk)) + 1]]

\* a flush that writes only a full buffer
ostream_flush_only_when_full(o, junk) ==
    IF ring_pos(o.buffer) = 0 THEN o
    ELSE IF ~ring_full(o.buffer) THEN [o EXCEPT !.buffer = ring_flush(@)]
    ELSE [o EXCEPT !.fd = @ \o BufferBytes(o.buffer, ring_pos(o.buffer), junk),
                   !.buffer = ring_flush(@)]

\* ostream::flush
ostream_flush(o, junk) ==
    IF ring_pos(o.buffer) = 0 THEN o
    ELSE [o EXCEPT !.fd = @ \o BufferBytes(o.buffer, ring_pos(o.buffer), junk),
                   !.buffer = ring_flush(@)]

\* if (buffer.full()) flush();
ostream_flush_if_full(o, junk) ==
    IF ring_full(o.buffer) THEN ostream_flush(o, junk) ELSE o

RECURSIVE ostream_write_chunks(_, _, _, _, _)
\* the loop of ostream::do_write: while (remaining > Capacity) ...
ostream_write_chunks(o, data, off, remaining, junk) ==
    IF remaining > o.buffer.max
        THEN LET space == o.buffer.max - ring_pos(o.buffer)
                 o1 == [o EXCEPT !.buffer =
                          ring_write_unchecked(@, BytesFrom(data, junk, off, space),
                                               space, junk)]
             IN  ostream_write_chunks(ostream_flush_if_full(o1, junk), data,
                                      off + space, remaining - space, junk)
        ELSE o

\* ostream::do_write
ostream_do_write(o, data, size, junk) ==
    IF size > o.buffer.max
        THEN ostream_write_chunks(o, data, 0, size, junk)
        ELSE ostream_flush_if_full(
                [o EXCEPT !.buffer = ring_write_unchecked(@, data, size, junk)],
                junk)

\* ostream::operator<<(T &&handle): do_write(handle.ptr(), handle.size())
ostream_insert_string(o, s, junk) == ostream_do_write(o, s, Len(s), junk)

\* ostream::operator<<(const char s)
ostream_insert_char(o, c, junk) ==
    [ostream_flush_if_full(o, junk) EXCEPT !.buffer = ring_emplace_back(@, c)]

RECURSIVE ostream_insert_cstr(_, _, _)
\* ostream::operator<<(const char *s): s without its terminating NUL
ostream_insert_cstr(o, s, junk) ==
    IF s = <<>> THEN o
    ELSE ostream_insert_cstr(ostream_insert_char(o, Head(s), junk), Tail(s), junk)

\* ostream::~ostream
ostream_destructor(o, junk) == [ostream_flush(o, junk) EXCEPT !.alive = FALSE]

(***************************************************************************)
(* pmr::vector<T> for a T that is not trivially copyable, constructible    *)
(* or destructible.  Every constructed T is an object with an identity     *)
(* 1..MaxObjs.  The state is n = [v, dt, cl, next, ub]:                    *)
(*   v    |-> the fields [init, data, size, cap] and slots, the block data *)
(*            points to: slots[i + 1] is the object last constructed at    *)
(*            data[i], 0 if none was,                                      *)
(*   dt   |-> how often the destructor of each object has been invoked,    *)
(*   cl   |-> the objects that were elements when clear() was called,      *)
(*   next |-> the identity of the next object constructed,                 *)
(*   ub   |-> an access outside the block, to a slot without an object or  *)
(*            to an object that was destroyed already.                     *)
(***************************************************************************)
ObjIds == 1..MaxObjs

DefaultNVec ==
    [init |-> FALSE, data |-> FALSE, size |-> 0, cap |-> DefaultCapacity, slots |-> <<>>]

NewNVector ==
    [v |-> DefaultNVec, dt |-> [o \in ObjIds |-> 0], cl |-> {}, next |-> 1, ub |-> FALSE]

\* system_array_resource::allocate: operator new(sizeof(T) * n)
nvector_allocate(n, len) ==
    [n EXCEPT !.v.data = TRUE, !.v.slots = [i \in 1..len |-> 0]]

\* data[i].~T()
nvector_destruct(n, i) ==
    IF n.v.data /\ i < Len(n.v.slots) /\ n.v.slots[i + 1] # 0
        THEN [n EXCEPT !.dt[n.v.slots[i + 1]] = @ + 1,
                       !.ub = @ \/ n.dt[n.v.slots[i + 1]] > 0]
        ELSE [n EXCEPT !.ub = TRUE]

RECURSIVE nvector_destruct_from(_, _, _)
\* for (size_t i = from; i < to; ++i) data[i].~T();
nvector_destruct_from(n, from, to) ==
    IF from >= to \/ n.ub THEN n
    ELSE nvector_destruct_from(nvector_destruct(n, from), from + 1, to)

\* new (&data[i]) T(...)
nvector_construct(n, i) ==
    IF n.v.data /\ i < Len(n.v.slots)
        THEN [n EXCEPT !.v.slots[i + 1] = n.next, !.next = @ + 1]
        ELSE [n EXCEPT !.ub = TRUE, !.next = @ + 1]

RECURSIVE nvector_move_elements(_, _, _, _)
\* the loop of system_array_resource::reallocate: new_ptr[i] is
\* move-constructed from ptr[i], then ptr[i] is destroyed
nvector_move_elements(n, old, i, min_len) ==
    IF i >= min_len \/ n.ub THEN n
    ELSE LET ok == i < Len(old) /\ old[i + 1] # 0
             n1 == IF ok THEN [n EXCEPT !.dt[old[i + 1]] = @ + 1,
                                        !.ub = @ \/ n.dt[old[i + 1]] > 0]
                   ELSE [n EXCEPT !.ub = TRUE]
         IN  nvector_move_elements(nvector_construct(n1, i), old, i + 1, min_len)

\* system_array_resource::reallocate(ptr, old_len, new_len)
nvector_reallocate(n, old_len, new_len) ==
    nvector_move_elements(nvector_allocate(n, new_len), n.v.slots, 0,
                          Min(old_len, new_len))

\* vector::init
nvector_init(n) ==
    nvector_allocate([n EXCEPT !.v.init = TRUE, !.v.cap = tp.ic], tp.ic)

\* vector::resize
nvector_resize(n, new_size) ==
    IF ~n.v.data
        THEN [nvector_allocate(n, new_size) EXCEPT !.v.cap = new_size]
        ELSE [nvector_reallocate(n, n.v.size, new_size) EXCEPT !.v.cap = new_size]

\* vector::aggressive_destroy
nvector_aggressive_destroy(n) ==
    IF ~n.v.init \/ ~n.v.data THEN n
    ELSE [n EXCEPT !.v.data = FALSE, !.v.slots = <<>>]

\* vector::destroy
nvector_destroy(n) ==
    IF n.v.init
        THEN nvector_aggressive_destroy(nvector_destruct_from(n, 0, n.v.size))
        ELSE n

\* vector::emplace_back
nvector_emplace_back(n) ==
    LET n1 == IF ~n.v.init THEN nvector_init(n) ELSE n
        n2 == IF n1.v.size >= n1.v.cap
                THEN nvector_resize(n1, GrowCapacity(n1.v.cap))
                ELSE n1
    IN  [nvector_construct(n2, n2.v.size) EXCEPT !.v.size = (@ + 1) % SizeMod]

\* vector::pop_back
nvector_pop_back(n) ==
    IF n.v.size > 0
        THEN LET n1 == nvector_destruct([n EXCEPT !.v.size = @ - 1], n.v.size - 1)
             IN  IF n1.v.size = 0 /\ n1.v.init
                    THEN [nvector_destroy(n1) EXCEPT !.v.init = FALSE,
                                                     !.v.data = FALSE,
                                                     !.v.slots = <<>>,
                                                     !.v.cap = 0]
                    ELSE n1
        ELSE n

\* vector::pop_back_move: --size_; return std::move(data[size_]);
\* on an empty vector the read is outside the block
nvector_pop_back_move(n) ==
    LET sz == (n.v.size - 1) % SizeMod
    IN  IF n.v.data /\ sz < Len(n.v.slots) /\ n.v.slots[sz + 1] # 0
              /\ n.dt[n.v.slots[sz + 1]] = 0
            THEN {[n EXCEPT !.v.size = sz]}
            ELSE {[n EXCEPT !.v.size = sz], [n EXCEPT !.v.size = sz, !.ub = TRUE]}

\* vector::clear
nvector_clear(n) ==
    [nvector_destruct_from(n, 0, n.v.size) EXCEPT !.v.size = 0]

\* vector::shrink_to_fit
nvector_shrink_to_fit(n) ==
    IF n.v.size < n.v.cap THEN nvector_resize(n, n.v.size) ELSE n

\* vector::reserve
nvector_reserve(n, c) ==
    IF c > n.v.cap THEN [nvector_resize(n, c) EXCEPT !.v.init = TRUE] ELSE n

\* vector::~vector
nvector_destructor(n) == nvector_destroy(n)

(***************************************************************************)
(* The vector's actions.                                                   *)
(***************************************************************************)
vecVars == <<tp, vec, heap, vdf, vub, vhist>>
laVars == <<lcap, la, lhist>>
spVars == <<sp, objA, rcA, rcVal, sbad, slast>>
rbVars == <<ring, rlast>>
osVars == <<os, oins, olast>>
nvVars == <<nvec, nlast>>
atVars == <<athr, acell>>
coVars == <<cos, cthr>>
mrVars == <<mres, mthr>>
stVars == <<str, strlast>>
trVars == <<trie, tins>>
upVars == <<up, uobj>>
srVars == <<sres, srlast>>
smVars == <<stm, stmlast>>
mpVars == <<mp, mplast>>
dlVars == <<dl, dllast>>
rlVars == <<rl>>
sbVars == <<sb>>
lfVars == <<ld>>
pvVars == <<pv, pvlast>>
mmVars == <<mm>>
itVars == <<it>>
newVars == <<stVars, trVars, upVars, srVars, smVars, mpVars, dlVars, rlVars, sbVars, lfVars, pvVars, mmVars, itVars>>
oldVars == <<vecVars, laVars, spVars, rbVars, osVars, nvVars, atVars, coVars,
             mrVars>>
vars == <<oldVars, newVars>>

VState == [v |-> vec, h |-> heap, df |-> vdf, ub |-> vub]

VSet(s, hist) ==
    /\ vec' = s.v
    /\ heap' = s.h
    /\ vdf' = s.df
    /\ vub' = s.ub
    /\ vhist' = hist
    /\ UNCHANGED <<tp, laVars, spVars, rbVars, osVars, nvVars, atVars, coVars, mrVars,
                   newVars>>

VecEmplaceBackVal(val) ==
    /\ ~vub
    /\ vec.size < MaxLen
    /\ \E s \in vector_emplace_back(VState, val) :
          VSet(s, IF vhist = "released" THEN "reborn" ELSE "none")

VecEmplaceBack == \E val \in Val : VecEmplaceBackVal(val)

VecPopBack ==
    /\ ~vub
    /\ VSet(vector_pop_back(VState),
            IF vec.init /\ vec.size = 1 THEN "released" ELSE "none")

VecPopBackMove ==
    /\ ~vub
    /\ VSet(vector_pop_back_move(VState), "none")

VecClear ==
    /\ ~vub
    /\ VSet(vector_clear(VState), "none")

VecShrinkToFit ==
    /\ ~vub
    /\ \E s \in vector_shrink_to_fit(VState) : VSet(s, "none")

VecReserve ==
    /\ ~vub
    /\ \E n \in 1..MaxReserve : \E s \in vector_reserve(VState, n) : VSet(s, "none")

\* this = other; other is then destroyed
VecCopyAssign ==
    /\ ~vub
    /\ \E o \in OtherVectors(heap) :
         \E s \in vector_copy_assign([VState EXCEPT !.h = o.h], o.v) :
            VSet([s EXCEPT !.h = vector_destructor([o EXCEPT !.h = s.h]).h], "none")

\* this = move(other); other is then destroyed
VecMoveAssign ==
    /\ ~vub
    /\ \E o \in OtherVectors(heap) :
         LET s == vector_move_assign([VState EXCEPT !.h = o.h], o.v)
         IN  VSet([s EXCEPT !.h = vector_destructor([o EXCEPT !.v = MovedFrom,
                                                              !.h = s.h]).h],
                  "none")

(***************************************************************************)
(* The lazy allocator's actions.  dealloc is called on live pointers only. *)
(***************************************************************************)
\* lhist records the pointer the last alloc returned (ret), the pointers
\* given to dealloc and not handed out again, oldest first (order), the
\* largest number of live objects so far (peak) and the number of pages
\* constructed so far (opened)
Without(seq, p) == SelectSeq(seq, LAMBDA x : x # p)

Max(a, b) == IF a >= b THEN a ELSE b

LaAlloc ==
    /\ lazy_can_alloc(la)
    /\ la' = lazy_alloc(la)
    /\ lhist' = [ret |-> lazy_alloc_ptr(la),
                 order |-> Without(lhist.order, lazy_alloc_ptr(la)),
                 peak |-> Max(lhist.peak, Cardinality(lazy_alloc(la).live)),
                 opened |-> lhist.opened
                              + Len(lazy_alloc(la).pages) - Len(la.pages)]
    /\ UNCHANGED <<lcap, vecVars, spVars, rbVars, osVars, nvVars, atVars, coVars, mrVars,
                   newVars>>

LaDealloc ==
    /\ \E p \in la.live :
          /\ la' = lazy_dealloc(la, p)
          /\ lhist' = [lhist EXCEPT !.order = Append(@, p)]
    /\ UNCHANGED <<lcap, vecVars, spVars, rbVars, osVars, nvVars, atVars, coVars, mrVars,
                   newVars>>

(***************************************************************************)
(* The shared pointer's actions.  A handle is dead before its construction *)
(* and after its destruction.                                              *)
(***************************************************************************)
SState == [hs |-> sp, oa |-> objA, ra |-> rcA, val |-> rcVal, bad |-> sbad]

\* the count a handle sees (0 for a null handle)
use_count(h) == IF sp[h].rc = NullPtr THEN 0 ELSE rcVal[sp[h].rc]

SSet(st, op, k) ==
    /\ sp' = st.hs
    /\ objA' = st.oa
    /\ rcA' = st.ra
    /\ rcVal' = st.val
    /\ sbad' = st.bad
    /\ slast' = [op |-> op, k |-> k]
    /\ UNCHANGED <<vecVars, laVars, rbVars, osVars, nvVars, atVars, coVars, mrVars,
                   newVars>>

SpConstruct(h) ==
    /\ ~sbad
    /\ ~sp[h].alive
    /\ lazy_can_alloc(objA)
    /\ lazy_can_alloc(rcA)
    /\ SSet(shared_ptr_construct(SState, h), "construct", 0)

SpConstructNull(h) ==
    /\ ~sbad
    /\ ~sp[h].alive
    /\ SSet(shared_ptr_construct_null(SState, h), "construct_null", 0)

SpCopyConstruct(h, o) ==
    /\ ~sbad
    /\ ~sp[h].alive
    /\ sp[o].alive
    /\ SSet(shared_ptr_copy_construct(SState, h, o), "copy", use_count(o))

SpMoveConstruct(h, o) ==
    /\ ~sbad
    /\ ~sp[h].alive
    /\ sp[o].alive
    /\ SSet(shared_ptr_move_construct(SState, h, o), "move", use_count(o))

SpCopyAssign(h, o) ==
    /\ ~sbad
    /\ sp[h].alive
    /\ sp[o].alive
    /\ SSet(shared_ptr_copy_assign(SState, h, o), "copy_assign", use_count(h))

SpMoveAssign(h, o) ==
    /\ ~sbad
    /\ sp[h].alive
    /\ sp[o].alive
    /\ SSet(shared_ptr_move_assign(SState, h, o), "move_assign", use_count(h))

SpDestruct(h) ==
    /\ ~sbad
    /\ sp[h].alive
    /\ SSet(shared_ptr_destructor(SState, h), "destruct", use_count(h))

(***************************************************************************)
(* The ring buffer's actions.                                              *)
(***************************************************************************)
RSet(rb, op, buf, n) ==
    /\ ring' = rb
    /\ rlast' = [op |-> op, h |-> ring.head, buf |-> buf, n |-> n]
    /\ UNCHANGED <<vecVars, laVars, spVars, osVars, nvVars, atVars, coVars, mrVars,
                   newVars>>

RbPushBack == \E v \in Byte : RSet(ring_push_back(ring, v), "push_back", <<v>>, 1)

RbEmplaceBack == \E v \in Byte : RSet(ring_emplace_back(ring, v), "emplace_back", <<v>>, 1)

RbAdvance == RSet(ring_advance(ring), "advance", <<>>, 0)

RbFlush == RSet(ring_flush(ring), "flush", <<>>, 0)

\* write<true>(buf, n) with n <= Max, buf an array of at least n bytes
RbWrite ==
    \E buf \in SeqsUpTo(MaxBuf) : \E n \in 0..Len(buf) : \E junk \in JunkSeqs :
        /\ n <= ring.max
        /\ RSet(ring_write_checked(ring, buf, n, junk), "write", buf, n)

(***************************************************************************)
(* The ostream's actions.                                                  *)
(***************************************************************************)
\* the bytes pending in the ostream's buffer
Pending == [i \in 1..os.buffer.head |-> os.buffer.data[i - 1]]

OSet(o, op, inserted) ==
    /\ os' = o
    /\ oins' = oins \o inserted
    /\ olast' = [op |-> op, pending |-> os.buffer.head]
    /\ UNCHANGED <<vecVars, laVars, spVars, rbVars, nvVars, atVars, coVars, mrVars,
                   newVars>>

OsInsertString ==
    /\ os.alive
    /\ \E s \in SeqsUpTo(MaxStr) : \E junk \in JunkSeqs :
          /\ Len(oins) + Len(s) <= MaxTotal
          /\ OSet(ostream_insert_string(os, s, junk), "string", s)

OsInsertCStr ==
    /\ os.alive
    /\ \E s \in SeqsUpTo(MaxStr) : \E junk \in JunkSeqs :
          /\ Len(oins) + Len(s) <= MaxTotal
          /\ OSet(ostream_insert_cstr(os, s, junk), "cstr", s)

OsInsertChar ==
    /\ os.alive
    /\ \E c \in Byte : \E junk \in JunkSeqs :
          /\ Len(oins) + 1 <= MaxTotal
          /\ OSet(ostream_insert_char(os, c, junk), "char", <<c>>)

OsFlush ==
    /\ os.alive
    /\ \E junk \in JunkSeqs : OSet(ostream_flush(os, junk), "flush", <<>>)

OsDestroy ==
    /\ os.alive
    /\ \E junk \in JunkSeqs : OSet(ostream_destructor(os, junk), "destroy", <<>>)

(***************************************************************************)
(* The actions of the vector of a non-trivial T.  A result that needs more *)
(* than MaxObjs objects is not offered.                                    *)
(***************************************************************************)
\* the objects at data[0 .. size_)
ElementsOf(n) == {n.v.slots[i] : i \in 1..Min(n.v.size, Len(n.v.slots))} \ {0}

NSet(n, op) ==
    /\ ~nvec.ub
    /\ nlast # "destructor"
    /\ n.next <= MaxObjs + 1
    /\ nvec' = n
    /\ nlast' = op
    /\ UNCHANGED <<vecVars, laVars, spVars, rbVars, osVars, atVars, coVars, mrVars,
                   newVars>>

NvEmplaceBack ==
    /\ nvec.v.size < MaxLen
    /\ NSet(nvector_emplace_back(nvec), "emplace_back")

NvPopBack == NSet(nvector_pop_back(nvec), "pop_back")

NvPopBackMove == \E n \in nvector_pop_back_move(nvec) : NSet(n, "pop_back_move")

NvClear ==
    NSet([nvector_clear(nvec) EXCEPT !.cl = @ \cup ElementsOf(nvec)], "clear")

NvShrinkToFit == NSet(nvector_shrink_to_fit(nvec), "shrink_to_fit")

NvReserve == \E c \in 1..MaxReserve : NSet(nvector_reserve(nvec, c), "reserve")

NvDestructor == NSet(nvector_destructor(nvec), "destructor")

(***************************************************************************)
(* pmr::shared_ptr<T, true> (atomic count) shared by threads.  Every       *)
(* thread starts with one handle to the same object, copy-constructs new   *)
(* handles from a handle of its own and destroys handles of its own.  An   *)
(* atomic operation is one step; destroy() is two (the object is released, *)
(* then the count).                                                        *)
(*   acell = [count |-> the value of *atomic_ref_count,                    *)
(*            obj   |-> "live", "freed", or "twice" (released again),      *)
(*            rc    |-> the same for the count's storage,                  *)
(*            bad   |-> the count was accessed after its release]          *)
(***************************************************************************)
Threads == 1..NumThreads

\* (*atomic_ref_count)-- : the count afterwards and the value compared to 0
atomic_post_decrement(c) == [count |-> c - 1, result |-> c]

\* --(*atomic_ref_count) : the count afterwards and the value compared to 0
atomic_pre_decrement(c) == [count |-> c - 1, result |-> c - 1]

\* atomic_ref_count->fetch_add(1)
atomic_fetch_add(c) == c + 1

Released(x) == IF x = "live" THEN "freed" ELSE "twice"

ASet(t, pc, owned, cell) ==
    /\ athr' = [athr EXCEPT ![t] = [pc |-> pc, owned |-> owned]]
    /\ acell' = cell
    /\ UNCHANGED <<vecVars, laVars, spVars, rbVars, osVars, nvVars, coVars, mrVars,
                   newVars>>

\* shared_ptr(const shared_ptr &other): the fields of a handle the thread
\* holds are copied into the new handle
AtCopyBegin(t) ==
    /\ athr[t].pc = "idle"
    /\ athr[t].owned \in 1..(MaxOwned - 1)
    /\ ASet(t, "add_ref_count", athr[t].owned, acell)

\* add_ref_count(): fetch_add(1); the new handle is then live
AtAddRefCount(t) ==
    /\ athr[t].pc = "add_ref_count"
    /\ ASet(t, "idle", athr[t].owned + 1,
            [acell EXCEPT !.count = atomic_fetch_add(@),
                          !.bad = @ \/ acell.rc # "live"])

\* ~shared_ptr(): --(*atomic_ref_count) == 0 on a handle the thread holds
AtDestructor(t) ==
    /\ athr[t].pc = "idle"
    /\ athr[t].owned >= 1
    /\ LET d == atomic_pre_decrement(acell.count)
       IN  ASet(t, IF d.result = 0 THEN "destroy" ELSE "idle", athr[t].owned - 1,
                [acell EXCEPT !.count = d.count,
                              !.bad = @ \/ acell.rc # "live"])

\* destroy(): Allocator::deallocate(ptr)
AtDestroyObject(t) ==
    /\ athr[t].pc = "destroy"
    /\ ASet(t, "destroy_count", athr[t].owned, [acell EXCEPT !.obj = Released(@)])

\* destroy(): ARefCountAllocator::deallocate(atomic_ref_count)
AtDestroyCount(t) ==
    /\ athr[t].pc = "destroy_count"
    /\ ASet(t, "idle", athr[t].owned, [acell EXCEPT !.rc = Released(@)])

(***************************************************************************)
(* stl::concurrent_ostream<FD, Capacity>, the exported alias, is           *)
(* pmr::ostream<FD, Capacity>: an insertion takes no lock.  Two threads    *)
(* each insert one string with operator<< for C strings; a step is one     *)
(* access of a thread to the shared buffer.                                *)
(***************************************************************************)
Writers == {1, 2}

\* the string thread t inserts: InsLen times the character t
InsertionOf(t) == [k \in 1..InsLen |-> t]

CSet(t, pc, i, h, o) ==
    /\ cthr' = [cthr EXCEPT ![t] = [pc |-> pc, i |-> i, h |-> h]]
    /\ cos' = o
    /\ UNCHANGED <<vecVars, laVars, spVars, rbVars, osVars, nvVars, atVars,
                   mrVars, newVars>>

\* the call of operator<<(const char *s): i = 0
CoBegin(t) ==
    /\ cthr[t].pc = "idle"
    /\ CSet(t, "loop", 0, 0, cos)

\* s[i] != '\0'; if (buffer.full()) flush();
CoLoop(t) ==
    /\ cthr[t].pc = "loop"
    /\ IF cthr[t].i >= InsLen
          THEN CSet(t, "done", cthr[t].i, 0, cos)
          ELSE \E junk \in JunkSeqs :
                  CSet(t, "emplace", cthr[t].i, 0, ostream_flush_if_full(cos, junk))

\* emplace_back: if (head >= Max) head = 0; and the address &data[head]
CoLoadHead(t) ==
    /\ cthr[t].pc = "emplace"
    /\ LET h == IF cos.buffer.head >= cos.buffer.max THEN 0 ELSE cos.buffer.head
       IN  CSet(t, "store", cthr[t].i, h, [cos EXCEPT !.buffer.head = h])

\* emplace_back: new (&data[head]) T(s[i]); ++head;  then ++i
CoStore(t) ==
    /\ cthr[t].pc = "store"
    /\ CSet(t, "loop", cthr[t].i + 1, 0,
            [cos EXCEPT !.buffer.data[cthr[t].h] = InsertionOf(t)[cthr[t].i + 1],
                        !.buffer.head = cthr[t].h + 1])

(***************************************************************************)
(* memory::monotonic_system_resource<T> used by several threads.  Its      *)
(* allocator is one static lazy_allocator<T>; allocate and deallocate call *)
(* alloc and dealloc on it and take no lock, so a thread can be preempted  *)
(* between any two accesses to the free list or to a page.  mres is        *)
(*   [pages |-> the offset of every page,                                  *)
(*    size, data |-> the free list: its size_ and its array,               *)
(*    dup |-> a pointer was handed out that some thread already owned,     *)
(*    broken |-> pop_back ran on an empty free list (size_ wrapped)].      *)
(***************************************************************************)
MrThreads == {1, 2}
MrFreeMax == MaxPages * MaxPageCapacity

InAlloc(t) == mthr[t].pc \in {"top", "pop", "pages", "open", "slot", "bump"}

\* the free list holds a pointer some thread owns, or one pointer twice
FreeListCorrupt ==
    \/ \E i \in 0..(mres.size - 1) : \E u \in MrThreads :
          mres.data[i] \in mthr[u].owned
    \/ \E i, j \in 0..(mres.size - 1) : i # j /\ mres.data[i] = mres.data[j]

\* the threads are followed up to the first fault
MSet(t, pc, p, h, owned, res) ==
    /\ ~mres.broken /\ ~mres.dup /\ ~FreeListCorrupt
    /\ mthr' = [mthr EXCEPT ![t] = [pc |-> pc, p |-> p, h |-> h, owned |-> owned]]
    /\ mres' = res
    /\ UNCHANGED <<vecVars, laVars, spVars, rbVars, osVars, nvVars, atVars, coVars,
                   newVars>>

\* the pointer p is returned to thread t
Handed(res, p) ==
    [res EXCEPT !.dup = @ \/ \E u \in MrThreads : p \in mthr[u].owned]

\* allocate(): alloc() tests free_list.empty()
MrAllocBegin(t) ==
    /\ mthr[t].pc = "idle"
    /\ Cardinality(mthr[t].owned) < MaxOwned
    /\ Len(mres.pages) + Cardinality({u \in MrThreads : InAlloc(u)}) < MaxPages
    /\ MSet(t, IF mres.size > 0 THEN "top" ELSE "pages", NullPtr, 0,
            mthr[t].owned, mres)

\* T *ptr = free_list[free_list.size() - 1]; the index is out of range when
\* the list was emptied meanwhile, and operator[] throws
MrReadTop(t) ==
    /\ mthr[t].pc = "top"
    /\ IF mres.size = 0
          THEN MSet(t, "idle", NullPtr, 0, mthr[t].owned, mres)
          ELSE MSet(t, "pop", mres.data[mres.size - 1], 0, mthr[t].owned, mres)

\* free_list.pop_back(); return ptr;
MrPop(t) ==
    /\ mthr[t].pc = "pop"
    /\ IF mres.size = 0
          THEN MSet(t, "idle", NullPtr, 0, mthr[t].owned \cup {mthr[t].p},
                    [Handed(mres, mthr[t].p) EXCEPT !.broken = TRUE])
          ELSE MSet(t, "idle", NullPtr, 0, mthr[t].owned \cup {mthr[t].p},
                    [Handed(mres, mthr[t].p) EXCEPT !.size = @ - 1])

\* if (pages.empty()) pages.emplace_back(); auto &back = pages.back();
\* if (back.full()) ...
MrCheckPages(t) ==
    /\ mthr[t].pc = "pages"
    /\ LET pg == IF mres.pages = <<>> THEN pages_emplace_back(mres.pages)
                                      ELSE mres.pages
       IN  MSet(t, IF page_full(pg[Len(pg)]) THEN "open" ELSE "slot",
                NullPtr, Len(pg), mthr[t].owned, [mres EXCEPT !.pages = pg])

\* pages.emplace_back(); return pages.back().alloc(...);
MrOpenPage(t) ==
    /\ mthr[t].pc = "open"
    /\ MSet(t, "slot", NullPtr, Len(mres.pages) + 1, mthr[t].owned,
            [mres EXCEPT !.pages = pages_emplace_back(@)])

\* page::alloc: if (offset >= Capacity) throw; T *ptr = buffer + offset
MrPageSlot(t) ==
    /\ mthr[t].pc = "slot"
    /\ IF page_full(mres.pages[mthr[t].h])
          THEN MSet(t, "idle", NullPtr, 0, mthr[t].owned, mres)
          ELSE MSet(t, "bump", <<mthr[t].h, mres.pages[mthr[t].h]>>, mthr[t].h,
                    mthr[t].owned, mres)

\* page::alloc: ++offset; new (ptr) T(...); return ptr;
MrPageBump(t) ==
    /\ mthr[t].pc = "bump"
    /\ MSet(t, "idle", NullPtr, 0, mthr[t].owned \cup {mthr[t].p},
            [Handed(mres, mthr[t].p) EXCEPT !.pages[mthr[t].h] = mthr[t].p[2] + 1])

\* deallocate(ptr): dealloc calls ptr->~T() and free_list.push_back(ptr),
\* which reads size_
MrDeallocBegin(t) ==
    /\ mthr[t].pc = "idle"
    /\ mres.size + Cardinality({u \in MrThreads : mthr[u].pc = "push"}) < MrFreeMax
    /\ \E p \in mthr[t].owned :
          MSet(t, "push", p, mres.size, mthr[t].owned \ {p}, mres)

\* push_back: data[size_] = ptr; ++size_;
MrPushStore(t) ==
    /\ mthr[t].pc = "push"
    /\ MSet(t, "idle", NullPtr, 0, mthr[t].owned,
            [mres EXCEPT !.data[mthr[t].h] = mthr[t].p, !.size = mthr[t].h + 1])

(***************************************************************************)
(* pmr::string<GrowthFactor = 1.8> (zelix/container/owned_string.h) over   *)
(* memory::resource<char>.  A string is                                    *)
(*   [buffer |-> the pointer is not null,                                  *)
(*    len, max_capacity, capacity |-> the fields,                          *)
(*    data |-> the bytes of the allocated block, all of them,              *)
(*    hang |-> a call did not return,                                      *)
(*    oob |-> a byte was stored outside the block].                        *)
(***************************************************************************)
\* '\0'
Nul == 0
\* the value of a byte malloc and realloc leave unset
Garbage == 3
\* template parameter <GrowthFactor = 1.8>
StringGrowthNum == 9
StringGrowthDen == 5

NewString ==
    [buffer |-> FALSE, len |-> 0, max_capacity |-> 0, capacity |-> 0,
     data |-> <<>>, hang |-> FALSE, oob |-> FALSE]

\* resource<char>::arr(len)
resource_arr(n) == [i \in 1..n |-> Garbage]

\* resource<char>::reallocate: realloc keeps the bytes both blocks have
resource_reallocate(data, new_len) ==
    [i \in 1..new_len |-> IF i <= Len(data) THEN data[i] ELSE Garbage]

\* string::reallocate
string_reallocate(s) ==
    [s EXCEPT !.capacity = s.max_capacity + 1,
              !.data = resource_reallocate(s.data, s.max_capacity + 1)]

\* string::reserve
string_reserve(s, required) ==
    IF ~s.buffer
        THEN [s EXCEPT !.buffer = TRUE, !.data = resource_arr(required + 1),
                       !.capacity = required + 1, !.max_capacity = required]
        ELSE IF s.len + required > s.max_capacity
            THEN string_reallocate([s EXCEPT !.max_capacity = s.len + required])
            ELSE s

\* static_cast<size_t>(capacity * GrowthFactor)
GrowString(c) == (c * StringGrowthNum) \div StringGrowthDen

RECURSIVE grown_capacity(_, _)
\* while (new_capacity < len + required) new_capacity = new_capacity * g;
\* -1 when the loop never ends, new_capacity being stuck below the target
grown_capacity(nc, need) ==
    IF nc >= need THEN nc
    ELSE IF GrowString(nc) = nc THEN 0 - 1
    ELSE grown_capacity(GrowString(nc), need)

\* string::reserve_growth
string_reserve_growth(s, required) ==
    IF ~s.buffer
        THEN [s EXCEPT !.buffer = TRUE, !.data = resource_arr(required + 1),
                       !.capacity = required + 1, !.max_capacity = required]
        ELSE IF s.max_capacity > required + s.len THEN s
        ELSE LET nc == grown_capacity(GrowString(s.capacity), s.len + required)
             IN  IF nc < 0 THEN [s EXCEPT !.hang = TRUE]
                 ELSE string_reallocate([s EXCEPT !.max_capacity = nc])

\* memcpy(buffer + len, c, c_len), and buffer[len] = c
string_store(s, bytes) ==
    [s EXCEPT !.data = [i \in 1..Len(s.data) |->
                          IF i > s.len /\ i <= s.len + Len(bytes)
                              THEN bytes[i - s.len] ELSE s.data[i]],
              !.oob = @ \/ s.len + Len(bytes) > Len(s.data)]

\* string::push(const char c)
string_push_char(s, c) ==
    LET g == string_reserve_growth(s, 1)
    IN  IF g.hang THEN g ELSE [string_store(g, <<c>>) EXCEPT !.len = g.len + 1]

\* string::push(const char *c, size_t c_len)
string_push(s, bytes) ==
    LET g == string_reserve_growth(s, Len(bytes))
    IN  IF g.hang THEN g
        ELSE [string_store(g, bytes) EXCEPT !.len = g.len + Len(bytes)]

\* a c_str that stores the terminator without reserving a byte for it
string_c_str_no_reserve(s) ==
    IF s.buffer
        THEN [kind |-> "value", s |-> string_store(s, <<Nul>>)]
        ELSE [kind |-> "uninitialized_memory", s |-> s]

\* string::c_str
string_c_str(s) ==
    IF s.buffer
        THEN [kind |-> "value", s |-> string_store(string_reserve(s, 1), <<Nul>>)]
        ELSE [kind |-> "uninitialized_memory", s |-> s]

\* string::clear
string_clear(s) == [s EXCEPT !.len = 0]

\* string::no_copy(buf, buf_len)
string_no_copy(buf) ==
    IF Len(buf) = 0 THEN NewString
    ELSE [NewString EXCEPT !.buffer = TRUE, !.data = buf, !.len = Len(buf),
                           !.capacity = Len(buf), !.max_capacity = Len(buf) - 1]

\* string(size_t capacity)
string_with_capacity(n) == string_reserve(NewString, n)

\* string(const char *str, size_t s_len) and string(const char *s)
string_from(bytes) == string_push(string_reserve(NewString, Len(bytes)), bytes)

\* string::operator==(const string &)
string_equals(a, b) ==
    IF ~a.buffer /\ ~b.buffer THEN TRUE
    ELSE IF ~a.buffer \/ ~b.buffer THEN FALSE
    ELSE IF a.len # b.len THEN FALSE
    ELSE \A i \in 1..a.len : a.data[i] = b.data[i]

\* the bytes a caller passes
PushArgs == SeqsUpTo(MaxPush)

\* the actions of the string; a call that does not return ends the run
StSet(s, op, arg) ==
    /\ ~str.hang
    /\ s.len <= MaxStr
    /\ s.capacity <= MaxCapacity
    /\ str' = s
    /\ strlast' = [op |-> op, arg |-> arg, pre |-> str]
    /\ UNCHANGED <<oldVars, trVars, upVars, srVars, smVars, mpVars, dlVars, rlVars, sbVars, lfVars, pvVars, mmVars, itVars>>

StConstruct == \E n \in 0..MaxReserve : StSet(string_with_capacity(n), "string", <<>>)

StConstructFrom == \E b \in PushArgs : StSet(string_from(b), "string", b)

StNoCopy == \E b \in PushArgs : StSet(string_no_copy(b), "no_copy", b)

StReserve == \E n \in 0..MaxReserve : StSet(string_reserve(str, n), "reserve", <<>>)

StPushChar == \E c \in Byte : StSet(string_push_char(str, c), "push", <<c>>)

StPush == \E b \in PushArgs : StSet(string_push(str, b), "push", b)

StCStr == StSet(string_c_str(str).s, string_c_str(str).kind, <<>>)

StClear == StSet(string_clear(str), "clear", <<>>)

(***************************************************************************)
(* pmr::alphabetic_trie<OnlyLowercase = false, UseHeap = false>            *)
(* (zelix/alphabetic_trie.h).  A character is its ASCII code.  A node is   *)
(* [children |-> for every index the number of the child node, 0 for       *)
(* nullptr, end |-> is_end_of_word]; trie.nodes lists the nodes allocated, *)
(* the root first.                                                         *)
(***************************************************************************)
\* 'a' and 'A'
LowerA == 97
UpperA == 65
\* the children of a node
TrieWidth == 26

Letters == {UpperA, LowerA, LowerA + 1}
Words == UNION { [1..k -> Letters] : k \in 0..MaxWord }

\* tolower
to_lower(ch) ==
    IF ch >= UpperA /\ ch < UpperA + TrieWidth THEN ch + (LowerA - UpperA) ELSE ch

\* alphabetic_trie::get_idx, OnlyLowercase = false
get_idx(ch) == to_lower(ch) - LowerA

\* alphabetic_trie_node::alphabetic_trie_node
NewNode == [children |-> [j \in 0..(TrieWidth - 1) |-> 0], end |-> FALSE]

\* child *root = ChildrenAllocator::allocate();
NewTrie == [nodes |-> <<NewNode>>]

\* an insert that leaves the last node unmarked
trie_mark_end_skipped(t, cur) == t

\* current->is_end_of_word = true;
trie_mark_end(t, cur) == [t EXCEPT !.nodes[cur].end = TRUE]

RECURSIVE trie_insert_from(_, _, _, _)
\* alphabetic_trie::insert: the loop from word[i - 1] on, current = cur
trie_insert_from(t, cur, word, i) ==
    IF i > Len(word) THEN trie_mark_end(t, cur)
    ELSE LET idx == get_idx(word[i])
         IN  IF t.nodes[cur].children[idx] = 0
                 THEN LET fresh == Len(t.nodes) + 1
                          t2 == [nodes |-> Append([t.nodes EXCEPT
                                             ![cur].children[idx] = fresh],
                                                  NewNode)]
                      IN  trie_insert_from(t2, fresh, word, i + 1)
                 ELSE trie_insert_from(t, t.nodes[cur].children[idx], word, i + 1)

\* alphabetic_trie::insert(word, n)
trie_insert(t, word) == trie_insert_from(t, 1, word, 1)

RECURSIVE trie_search_from(_, _, _, _)
\* alphabetic_trie::search: the loop from word[i - 1] on, current = cur
trie_search_from(t, cur, word, i) ==
    IF i > Len(word) THEN t.nodes[cur].end
    ELSE LET idx == get_idx(word[i])
         IN  IF t.nodes[cur].children[idx] = 0 THEN FALSE
             ELSE trie_search_from(t, t.nodes[cur].children[idx], word, i + 1)

\* alphabetic_trie::search(word, n)
trie_search(t, word) == trie_search_from(t, 1, word, 1)

TrInsert ==
    /\ tins.calls < MaxInserts
    /\ \E w \in Words :
          /\ trie' = trie_insert(trie, w)
          /\ tins' = [words |-> tins.words \cup {w}, calls |-> tins.calls + 1]
    /\ UNCHANGED <<oldVars, stVars, upVars, srVars, smVars, mpVars, dlVars, rlVars, sbVars, lfVars, pvVars, mmVars, itVars>>

(***************************************************************************)
(* pmr::unique_ptr<T> (zelix/container/unique_ptr.h and                    *)
(* zelix/memory/unique_ptr.h, which differ in the default resource only),  *)
(* T trivially destructible.  A pointer is the number of the object, Null  *)
(* for nullptr.  The methods are operators on st = [hs, obj]: the          *)
(* variables and obj =                                                     *)
(*   [next |-> the number of the next object allocated,                    *)
(*    live |-> the objects allocated and not deallocated,                  *)
(*    freed |-> for every object the deallocate calls it was given to,     *)
(*    raw |-> the pointers release() returned, held by the caller].        *)
(***************************************************************************)
DeadUnique == [alive |-> FALSE, ptr |-> Null]

NoObjects ==
    [next |-> 1, live |-> {}, freed |-> [p \in 1..MaxObjs |-> 0], raw |-> {}]

\* Allocator::deallocate(ptr): free(nullptr) does nothing
unique_deallocate(obj, p) ==
    IF p = Null THEN obj
    ELSE [obj EXCEPT !.live = @ \ {p}, !.freed[p] = Min(@ + 1, 2)]

\* unique_ptr(Args &&...): ptr = Allocator::allocate(args...)
unique_ptr_construct(st, h) ==
    [hs |-> [st.hs EXCEPT ![h] = [alive |-> TRUE, ptr |-> st.obj.next]],
     obj |-> [st.obj EXCEPT !.next = @ + 1, !.live = @ \cup {st.obj.next}]]

\* a move constructor that leaves the source its pointer
unique_ptr_move_construct_copies(st, h, o) ==
    [st EXCEPT !.hs[h] = [alive |-> TRUE, ptr |-> st.hs[o].ptr]]

\* unique_ptr(unique_ptr &&other)
unique_ptr_move_construct(st, h, o) ==
    [st EXCEPT !.hs[h] = [alive |-> TRUE, ptr |-> st.hs[o].ptr],
               !.hs[o].ptr = Null]

\* unique_ptr::operator=(unique_ptr &&other)
unique_ptr_move_assign(st, h, o) ==
    IF h = o THEN st
    ELSE [st EXCEPT !.obj = unique_deallocate(@, st.hs[h].ptr),
                    !.hs[h].ptr = st.hs[o].ptr,
                    !.hs[o].ptr = Null]

\* unique_ptr::release
unique_ptr_release(st, h) ==
    [st EXCEPT !.hs[h].ptr = Null,
               !.obj.raw = IF st.hs[h].ptr = Null THEN @ ELSE @ \cup {st.hs[h].ptr}]

\* unique_ptr::reset(p)
unique_ptr_reset(st, h, p) ==
    [st EXCEPT !.obj = [unique_deallocate(@, st.hs[h].ptr) EXCEPT !.raw = @ \ {p}],
               !.hs[h].ptr = p]

\* the end of the variable's scope: the class declares no destructor, the
\* implicit one leaves the object alone
unique_ptr_destructor(st, h) == [st EXCEPT !.hs[h] = DeadUnique]

UState == [hs |-> up, obj |-> uobj]

USet(st) ==
    /\ up' = st.hs
    /\ uobj' = st.obj
    /\ UNCHANGED <<oldVars, stVars, trVars, srVars, smVars, mpVars, dlVars, rlVars, sbVars, lfVars, pvVars, mmVars, itVars>>

UpConstruct(h) ==
    /\ ~up[h].alive
    /\ uobj.next <= MaxObjs
    /\ USet(unique_ptr_construct(UState, h))

UpMoveConstruct(h, o) ==
    /\ ~up[h].alive /\ up[o].alive
    /\ USet(unique_ptr_move_construct(UState, h, o))

UpMoveAssign(h, o) ==
    /\ up[h].alive /\ up[o].alive
    /\ USet(unique_ptr_move_assign(UState, h, o))

UpRelease(h) ==
    /\ up[h].alive
    /\ USet(unique_ptr_release(UState, h))

\* reset() and reset(p), p a pointer the caller got from release()
UpReset(h) ==
    /\ up[h].alive
    /\ \E p \in {Null} \cup uobj.raw : USet(unique_ptr_reset(UState, h, p))

UpEndOfScope(h) ==
    /\ up[h].alive
    /\ USet(unique_ptr_destructor(UState, h))

(***************************************************************************)
(* memory::system_resource<T> and memory::system_array_resource<T>         *)
(* (zelix/memory/system_resource.h) when the raw allocator may fail.  An   *)
(* allocation yields the set of its outcomes                               *)
(*   [raw |-> "block", "null" (malloc or realloc returned nullptr) or      *)
(*            "bad_alloc" (operator new threw std::bad_alloc),             *)
(*    kind |-> "value" (the call returned), "failed_alloc" or "bad_alloc"  *)
(*             (the exception that left the call),                         *)
(*    p |-> the pointer returned is not null].                             *)
(* trivial tells whether T is trivially constructible and destructible.    *)
(***************************************************************************)
Returned(raw, p) == [raw |-> raw, kind |-> "value", p |-> p]
Thrown(raw, kind) == [raw |-> raw, kind |-> kind, p |-> FALSE]

\* system_resource::allocate
system_resource_allocate(trivial) ==
    IF trivial
        THEN {Returned("block", TRUE), Thrown("null", "failed_alloc")}
        ELSE {Returned("block", TRUE), Thrown("bad_alloc", "bad_alloc")}

\* system_array_resource::allocate
system_array_resource_allocate(trivial) ==
    IF trivial
        THEN {Returned("block", TRUE), Returned("null", FALSE)}
        ELSE {Returned("block", TRUE), Thrown("bad_alloc", "bad_alloc")}

\* system_array_resource::reallocate
system_array_resource_reallocate(trivial) ==
    IF trivial
        THEN {Returned("block", TRUE), Returned("null", FALSE)}
        ELSE {Returned("block", TRUE), Thrown("bad_alloc", "bad_alloc")}

\* vector::init with the outcome a of Allocator::allocate
init_with(v, a) ==
    IF a.kind = "value"
        THEN [v EXCEPT !.init = TRUE, !.cap = tp.ic, !.data = a.p]
        ELSE [v EXCEPT !.init = TRUE, !.cap = tp.ic]

\* vector::resize with the outcome a of Allocator::allocate or ::reallocate
resize_with(v, a, new_size) ==
    IF a.kind = "value" THEN [v EXCEPT !.data = a.p, !.cap = new_size] ELSE v

SrSet(v, op, a) ==
    /\ sres' = v
    /\ srlast' = [op |-> op, raw |-> a.raw, kind |-> a.kind, p |-> a.p]
    /\ UNCHANGED <<oldVars, stVars, trVars, upVars, smVars, mpVars, dlVars, rlVars, sbVars, lfVars, pvVars, mmVars, itVars>>

\* an object is taken from system_resource<T>
SrAllocate ==
    /\ sres.objs < MaxObjs
    /\ \E trivial \in BOOLEAN : \E a \in system_resource_allocate(trivial) :
          SrSet([sres EXCEPT !.objs = IF a.kind = "value" THEN @ + 1 ELSE @],
                "allocate", a)

\* system_resource::deallocate
SrDeallocate ==
    /\ sres.objs > 0
    /\ SrSet([sres EXCEPT !.objs = @ - 1], "deallocate", Returned("block", TRUE))

\* the first emplace_back of a vector: init()
SrVectorInit ==
    /\ ~sres.init
    /\ \E trivial \in BOOLEAN : \E a \in system_array_resource_allocate(trivial) :
          SrSet(init_with(sres, a), "array_allocate", a)

\* resize(n) of an initialized vector: allocate without storage, else reallocate
SrVectorResize ==
    /\ sres.init
    /\ \E n \in 1..MaxLen : \E trivial \in BOOLEAN :
          IF ~sres.data
              THEN \E a \in system_array_resource_allocate(trivial) :
                      SrSet(resize_with(sres, a, n), "array_allocate", a)
              ELSE \E a \in system_array_resource_reallocate(trivial) :
                      SrSet(resize_with(sres, a, n), "array_reallocate", a)

\* vector::destroy
SrVectorDestroy ==
    /\ sres.init
    /\ SrSet([sres EXCEPT !.init = FALSE, !.data = FALSE, !.cap = 0],
             "array_deallocate", Returned("block", TRUE))

(***************************************************************************)
(* stream<T> (zelix/stream.h; fluent/container/stream.h has the same       *)
(* cursor): data_ is the vector of the stream, seen as the sequence of its *)
(* elements, pos_ the cursor.  A call yields [s, ret] with ret the         *)
(* optional returned, Void, or the exception thrown.                       *)
(***************************************************************************)
NewStream == [data |-> <<>>, pos |-> 0]
Void == [kind |-> "void", v |-> 0]
None == [kind |-> "none", v |-> 0]
Some(v) == [kind |-> "some", v |-> v]
OutOfBounds == [kind |-> "exception", v |-> 0]

\* stream::push
stream_push(s, value) == [s |-> [s EXCEPT !.data = Append(@, value)], ret |-> Void]

\* stream::peek(n); peek() is peek(0)
stream_peek(s, n) ==
    IF s.pos + n >= Len(s.data)
        THEN [s |-> s, ret |-> None]
        ELSE [s |-> s, ret |-> Some(s.data[s.pos + n + 1])]

\* stream::curr
stream_curr(s) ==
    IF s.pos = 0 \/ s.pos > Len(s.data)
        THEN [s |-> s, ret |-> None]
        ELSE [s |-> s, ret |-> Some(s.data[s.pos])]

\* stream::next
stream_next(s) ==
    IF s.pos >= Len(s.data)
        THEN [s |-> s, ret |-> None]
        ELSE [s |-> [s EXCEPT !.pos = @ + 1], ret |-> Some(s.data[s.pos + 1])]

\* stream::reset
stream_reset(s) == [s |-> [s EXCEPT !.pos = 0], ret |-> Void]

\* a set_pos without the bounds check
stream_set_pos_unchecked(s, pos) == [s |-> [s EXCEPT !.pos = pos], ret |-> Void]

\* stream::set_pos
stream_set_pos(s, pos) ==
    IF pos > Len(s.data)
        THEN [s |-> s, ret |-> OutOfBounds]
        ELSE [s |-> [s EXCEPT !.pos = pos], ret |-> Void]

SmSet(r, op, arg) ==
    /\ stm' = r.s
    /\ stmlast' = [op |-> op, arg |-> arg, pre |-> stm, ret |-> r.ret]
    /\ UNCHANGED <<oldVars, stVars, trVars, upVars, srVars, mpVars, dlVars, rlVars, sbVars, lfVars, pvVars, mmVars, itVars>>

SmPush == Len(stm.data) < MaxLen /\ \E v \in Byte : SmSet(stream_push(stm, v), "push", v)

SmPeek == SmSet(stream_peek(stm, 0), "peek", 0)

SmCurr == SmSet(stream_curr(stm), "curr", 0)

SmNext == SmSet(stream_next(stm), "next", 0)

SmReset == SmSet(stream_reset(stm), "reset", 0)

SmSetPos == \E n \in 0..(MaxLen + 1) : SmSet(stream_set_pos(stm, n), "set_pos", n)

(***************************************************************************)
(* memory::pmr::shared_ptr<T, Concurrent> (zelix/memory/shared_ptr.h) and  *)
(* memory::shared_ptr<T, Concurrent> (zelix/memory/memory.h).  Object i    *)
(* and its count cell i are allocated together; 0 is the null pointer.     *)
(* A handle is [alive, conc, ptr, cell]: conc is the template parameter    *)
(* Concurrent, cell the pointer in ref_count (conc FALSE) or in            *)
(* atomic_ref_count (conc TRUE); the other pointer is null.  The state is  *)
(*   [hs      |-> the handles,                                             *)
(*    val     |-> the values of the count cells,                           *)
(*    live    |-> the objects not yet destroyed,                           *)
(*    cells   |-> the count cells not yet released,                        *)
(*    next    |-> the next object to allocate,                             *)
(*    stray   |-> memory outside the count cells and the objects was read, *)
(*    badfree |-> a pointer no resource handed out was released].          *)
(***************************************************************************)
MemNull == 0
DeadMemHandle == [alive |-> FALSE, conc |-> FALSE, ptr |-> MemNull, cell |-> MemNull]

NewMemShared ==
    [hs |-> [h \in Handles |-> DeadMemHandle],
     val |-> [i \in 1..MaxObjs |-> 0],
     live |-> {}, cells |-> {}, next |-> 1,
     stray |-> FALSE, badfree |-> FALSE]

\* the values a new count cell can hold: std::atomic<int>(1) when Concurrent;
\* otherwise an int without an initializer (0 from resource<int>::allocate(),
\* whatever malloc left in memory.h)
CountInit(conc) == IF conc THEN {1} ELSE {0, 1}

\* shared_ptr::destroy
mshared_destroy(st, h) ==
    [st EXCEPT !.live = @ \ {st.hs[h].ptr},
               !.cells = @ \ {st.hs[h].cell},
               !.hs[h].ptr = MemNull,
               !.hs[h].cell = MemNull]

\* shared_ptr(Args&&...)
mshared_construct(st, h, conc, count) ==
    [st EXCEPT !.hs[h] = [alive |-> TRUE, conc |-> conc,
                          ptr |-> st.next, cell |-> st.next],
               !.val[st.next] = count,
               !.live = @ \cup {st.next},
               !.cells = @ \cup {st.next},
               !.next = @ + 1]

\* shared_ptr(shared_ptr &&other)
mshared_move_construct(st, h, o) ==
    [st EXCEPT !.hs[h] = st.hs[o],
               !.hs[o].ptr = MemNull,
               !.hs[o].cell = MemNull]

\* shared_ptr(shared_ptr &other)
mshared_copy_construct(st, h, o) ==
    LET c == st.hs[o].cell
        s1 == [st EXCEPT !.hs[h] = st.hs[o]]
    IN  IF c # MemNull THEN [s1 EXCEPT !.val[c] = @ + 1] ELSE s1

\* shared_ptr::operator=(shared_ptr &&other)
mshared_move_assign(st, h, o) ==
    IF h = o THEN st
    ELSE LET c == st.hs[h].cell
             s1 == IF c # MemNull THEN [st EXCEPT !.val[c] = @ - 1] ELSE st
             s2 == IF c # MemNull /\ s1.val[c] = 0 THEN mshared_destroy(s1, h) ELSE s1
         IN  [s2 EXCEPT !.hs[h].ptr = s2.hs[o].ptr,
                        !.hs[h].cell = s2.hs[o].cell,
                        !.hs[o].ptr = MemNull,
                        !.hs[o].cell = MemNull]

\* shared_ptr::~shared_ptr: "*--ref_count;" steps the pointer ref_count back
\* by one int and reads there, and "*ref_count == 0" reads there again;
\* before is the value found.  destroy() then releases the object, and the
\* atomic cell (Concurrent) or the stepped-back ref_count (otherwise).
mshared_destructor(st, h, before) ==
    LET s1 == [st EXCEPT !.stray = TRUE]
        s2 == IF before = 0
                THEN [s1 EXCEPT !.live = @ \ {st.hs[h].ptr},
                                !.cells = IF st.hs[h].conc
                                            THEN @ \ {st.hs[h].cell} ELSE @,
                                !.badfree = ~st.hs[h].conc]
                ELSE s1
    IN  [s2 EXCEPT !.hs[h] = DeadMemHandle]

MpSet(st, op, k, cell) ==
    /\ ~mp.stray
    /\ mp' = st
    /\ mplast' = [op |-> op, k |-> k, cell |-> cell, live |-> mp.live,
                  cells |-> mp.cells]
    /\ UNCHANGED <<oldVars, stVars, trVars, upVars, srVars, smVars, dlVars, rlVars, sbVars, lfVars, pvVars, mmVars, itVars>>

MpConstruct(h) ==
    /\ ~mp.hs[h].alive
    /\ mp.next <= MaxObjs
    /\ \E conc \in BOOLEAN : \E count \in CountInit(conc) :
          MpSet(mshared_construct(mp, h, conc, count), "construct", count, mp.next)

MpMoveConstruct(h, o) ==
    /\ ~mp.hs[h].alive
    /\ mp.hs[o].alive
    /\ MpSet(mshared_move_construct(mp, h, o), "move", 0, mp.hs[o].cell)

MpCopyConstruct(h, o) ==
    /\ ~mp.hs[h].alive
    /\ mp.hs[o].alive
    /\ MpSet(mshared_copy_construct(mp, h, o), "copy", 0, mp.hs[o].cell)

MpMoveAssign(h, o) ==
    /\ mp.hs[h].alive
    /\ mp.hs[o].alive
    /\ mp.hs[h].conc = mp.hs[o].conc
    /\ MpSet(mshared_move_assign(mp, h, o), "move_assign", 0, mp.hs[h].cell)

\* the value read outside the count cell is 0 or not
MpDestruct(h) ==
    /\ mp.hs[h].alive
    /\ \E before \in {0, 1} :
          MpSet(mshared_destructor(mp, h, before), "destruct",
                IF mp.hs[h].cell = MemNull THEN 0 ELSE mp.val[mp.hs[h].cell],
                mp.hs[h].cell)

(***************************************************************************)
(* pmr::delist<T> (zelix/container/delist.h).  Nodes are numbered          *)
(* 1..MaxNodes, 0 is the null pointer.  A delist is                        *)
(*   [len, head, tail |-> its fields (len is a size_t),                    *)
(*    nodes |-> the fields data, next, prev of each node,                  *)
(*    live  |-> the nodes allocated and not yet deallocated].              *)
(***************************************************************************)
NoNode == 0
BlankNode == [data |-> 0, next |-> NoNode, prev |-> NoNode]

NewDelist ==
    [len |-> 0, head |-> NoNode, tail |-> NoNode,
     nodes |-> [n \in 1..MaxNodes |-> BlankNode], live |-> {}]

\* Allocator::allocate(args...): a node that is not live, holding the value
delist_allocate(d, value) ==
    LET n == CHOOSE m \in (1..MaxNodes) \ d.live :
                 \A k \in (1..MaxNodes) \ d.live : m <= k
    IN  [node |-> n,
         d |-> [d EXCEPT !.nodes[n] = [data |-> value, next |-> NoNode, prev |-> NoNode],
                         !.live = @ \cup {n}]]

\* Allocator::deallocate(node)
delist_deallocate(d, n) ==
    [d EXCEPT !.nodes[n] = BlankNode, !.live = @ \ {n}]

\* delist::emplace_front (push_front forwards to it)
delist_emplace_front(d, value) ==
    LET d1 == [d EXCEPT !.len = (@ + 1) % SizeMod]
        a == delist_allocate(d1, value)
        n == a.node
        d2 == [a.d EXCEPT !.nodes[n].next = d.head, !.nodes[n].prev = NoNode]
        d3 == IF d.head # NoNode THEN [d2 EXCEPT !.nodes[d.head].prev = n] ELSE d2
        d4 == [d3 EXCEPT !.head = n]
    IN  IF d4.tail = NoNode THEN [d4 EXCEPT !.tail = n] ELSE d4

\* delist::emplace_back (push_back forwards to it)
delist_emplace_back(d, value) ==
    LET d1 == [d EXCEPT !.len = (@ + 1) % SizeMod]
        a == delist_allocate(d1, value)
        n == a.node
        d2 == [a.d EXCEPT !.nodes[n].next = NoNode, !.nodes[n].prev = d.tail]
        d3 == IF d.tail # NoNode THEN [d2 EXCEPT !.nodes[d.tail].next = n] ELSE d2
        d4 == [d3 EXCEPT !.tail = n]
    IN  IF d4.head = NoNode THEN [d4 EXCEPT !.head = n] ELSE d4

\* delist::pop_front
delist_pop_front(d) ==
    LET d1 == [d EXCEPT !.len = (@ - 1) % SizeMod]
    IN  IF d1.head = NoNode THEN d1
        ELSE LET old_head == d1.head
                 d2 == [d1 EXCEPT !.head = d1.nodes[old_head].next]
                 d3 == IF d2.head # NoNode
                         THEN [d2 EXCEPT !.nodes[d2.head].prev = NoNode]
                         ELSE [d2 EXCEPT !.tail = NoNode]
             IN  delist_deallocate(d3, old_head)

\* delist::pop_back
delist_pop_back(d) ==
    LET d1 == [d EXCEPT !.len = (@ - 1) % SizeMod]
    IN  IF d1.tail = NoNode THEN d1
        ELSE LET old_tail == d1.tail
                 d2 == [d1 EXCEPT !.tail = d1.nodes[old_tail].prev]
                 d3 == IF d2.tail # NoNode
                         THEN [d2 EXCEPT !.nodes[d2.tail].next = NoNode]
                         ELSE [d2 EXCEPT !.head = NoNode]
             IN  delist_deallocate(d3, old_tail)

\* delist::clear: while (head) pop_front();
RECURSIVE delist_clear(_)
delist_clear(d) == IF d.head = NoNode THEN d ELSE delist_clear(delist_pop_front(d))

\* delist::size
delist_size(d) == d.len

\* delist::empty
delist_empty(d) == d.len = 0

\* stack::push
stack_push(d, val) == delist_emplace_back(d, val)

\* stack::pop
stack_pop(d) == delist_pop_back(d)

DlSet(d, op) ==
    /\ dl' = d
    /\ dllast' = [op |-> op, empty |-> dl.head = NoNode]
    /\ UNCHANGED <<oldVars, stVars, trVars, upVars, srVars, smVars, mpVars, rlVars, sbVars, lfVars, pvVars, mmVars, itVars>>

DlHasRoom == Cardinality(dl.live) < MaxNodes

DlPushFront == DlHasRoom /\ \E v \in Val : DlSet(delist_emplace_front(dl, v), "push_front")

DlPushBack == DlHasRoom /\ \E v \in Val : DlSet(delist_emplace_back(dl, v), "push_back")

DlPopFront == DlSet(delist_pop_front(dl), "pop_front")

DlPopBack == DlSet(delist_pop_back(dl), "pop_back")

DlClear == DlSet(delist_clear(dl), "clear")

DlStackPush == DlHasRoom /\ \E v \in Val : DlSet(stack_push(dl, v), "push")

DlStackPop == DlSet(stack_pop(dl), "pop")

(***************************************************************************)
(* system_array_resource<T>::reallocate(ptr, old_len, new_len) for a T     *)
(* that is not trivially destructible, one loop iteration per step.  A     *)
(* call is                                                                 *)
(*   [pc      |-> "idle", "loop" or "done",                                *)
(*    old     |-> the values of the old_len elements of the old block,     *)
(*    new_len |-> the argument,                                            *)
(*    i       |-> the loop counter,                                        *)
(*    new_ptr |-> the new block: the value move-constructed in each slot,  *)
(*                0 for a slot without an object,                          *)
(*    dtor    |-> how often the destructor of each old slot has run,       *)
(*    freed   |-> the old block was given to operator delete].             *)
(***************************************************************************)
NoReallocate ==
    [pc |-> "idle", old |-> <<>>, new_len |-> 0, i |-> 0, new_ptr |-> <<>>,
     dtor |-> <<>>, freed |-> FALSE]

\* T *new_ptr = operator new(sizeof(T) * new_len); min_len = min(old_len, new_len)
reallocate_begin(old, new_len) ==
    [pc |-> "loop", old |-> old, new_len |-> new_len, i |-> 0,
     new_ptr |-> [k \in 1..new_len |-> 0],
     dtor |-> [k \in 1..Len(old) |-> 0], freed |-> FALSE]

reallocate_min_len(r) == Min(Len(r.old), r.new_len)

\* new (&new_ptr[i]) T(stl::move(ptr[i])); ptr[i].~T(); ++i
reallocate_move(r) ==
    [r EXCEPT !.new_ptr[r.i + 1] = r.old[r.i + 1],
              !.dtor[r.i + 1] = @ + 1,
              !.i = @ + 1]

\* operator delete(ptr); return new_ptr;
reallocate_release(r) == [r EXCEPT !.pc = "done", !.freed = TRUE]

RlSet(r) ==
    /\ rl' = r
    /\ UNCHANGED <<oldVars, stVars, trVars, upVars, srVars, smVars, mpVars, dlVars, sbVars, lfVars, pvVars, mmVars, itVars>>

RlBegin ==
    /\ rl.pc # "loop"
    /\ \E old \in SeqsUpTo(MaxLen) : \E new_len \in 0..MaxLen :
          RlSet(reallocate_begin(old, new_len))

RlMove ==
    /\ rl.pc = "loop"
    /\ rl.i < reallocate_min_len(rl)
    /\ RlSet(reallocate_move(rl))

RlRelease ==
    /\ rl.pc = "loop"
    /\ rl.i >= reallocate_min_len(rl)
    /\ RlSet(reallocate_release(rl))

(***************************************************************************)
(* The buffer of a string over its lifetime.  An owned string is           *)
(*   [s        |-> the string,                                             *)
(*    alive    |-> its destructor has not run,                             *)
(*    dangling |-> the block buffer points to was deallocated,             *)
(*    uaf      |-> a deallocated block was read, written or reallocated,   *)
(*    dfree    |-> a deallocated block was deallocated again].             *)
(* realloc releases the block it replaces, so a string has one block at    *)
(* most.                                                                   *)
(***************************************************************************)
NewOwned ==
    [s |-> NewString, alive |-> TRUE, dangling |-> FALSE, uaf |-> FALSE,
     dfree |-> FALSE]

\* the call passed the buffer to Allocator::reallocate
Reallocated(s, g) == s.buffer /\ g.capacity # s.capacity

\* the string b.s became g, a call that used the buffer when used holds
owned_step(b, g, used) ==
    [b EXCEPT !.s = g,
              !.uaf = @ \/ (b.s.buffer /\ b.dangling /\ (used \/ Reallocated(b.s, g)))]

\* Allocator::deallocate(buffer)
owned_deallocate(b) ==
    IF ~b.s.buffer THEN b
    ELSE [b EXCEPT !.dfree = @ \/ b.dangling, !.dangling = TRUE]

\* string::push(const char *, size_t)
owned_push(b, bytes) == owned_step(b, string_push(b.s, bytes), Len(bytes) > 0)

\* string::reserve
owned_reserve(b, required) == owned_step(b, string_reserve(b.s, required), FALSE)

\* string::c_str
owned_c_str(b) == owned_step(b, string_c_str(b.s).s, b.s.buffer)

\* string::operator=(const string &other), other another string
owned_copy_assign(b, other) ==
    LET b1 == [b EXCEPT !.s.len = 0]
    IN  IF other.len = 0 \/ ~other.buffer
            THEN owned_deallocate(b1)
            ELSE owned_push(owned_reserve(b1, other.len), Prefix(other.data, other.len))

\* string::~string
owned_destructor(b) == [owned_deallocate(b) EXCEPT !.alive = FALSE]

\* the strings assigned from
OtherOwned ==
    {NewString} \cup {string_with_capacity(n) : n \in 0..1}
        \cup {string_from(bytes) : bytes \in PushArgs}

SbSet(b) ==
    /\ ~sb.uaf /\ ~sb.dfree
    /\ ~b.s.hang
    /\ b.s.len <= MaxStr
    /\ b.s.capacity <= MaxCapacity
    /\ sb' = b
    /\ UNCHANGED <<oldVars, stVars, trVars, upVars, srVars, smVars, mpVars, dlVars,
                   rlVars, lfVars, pvVars, mmVars, itVars>>

\* string(), string(capacity), string(str, s_len): the first string, or the
\* next one where the last one ended
SbConstruct ==
    /\ ~sb.alive
    /\ \E s \in OtherOwned : SbSet([NewOwned EXCEPT !.s = s])

SbPush == sb.alive /\ \E bytes \in PushArgs : SbSet(owned_push(sb, bytes))

SbReserve == sb.alive /\ \E n \in 0..MaxReserve : SbSet(owned_reserve(sb, n))

SbCStr == sb.alive /\ sb.s.buffer /\ SbSet(owned_c_str(sb))

SbCopyAssign == sb.alive /\ \E other \in OtherOwned : SbSet(owned_copy_assign(sb, other))

SbDestruct == sb.alive /\ SbSet(owned_destructor(sb))

(***************************************************************************)
(* lazy_allocator<T, Capacity, ..., CallDestructors = true> for a T that   *)
(* is not trivially destructible, from its construction to its             *)
(* destruction:                                                            *)
(*   [a     |-> the allocator,                                             *)
(*    alive |-> it is constructed and not yet destroyed,                   *)
(*    built |-> the slots that hold a constructed object,                  *)
(*    twice |-> a destructor ran on a slot that held no object].           *)
(***************************************************************************)
NewLifetime == [a |-> EmptyAllocator, alive |-> FALSE, built |-> {}, twice |-> FALSE]

\* ptr->~T()
lifetime_destroy(l, p) ==
    [l EXCEPT !.built = @ \ {p}, !.twice = @ \/ p \notin l.built]

\* lazy_allocator::alloc: new (ptr) T(args...) on the slot handed out
lifetime_alloc(l) ==
    [l EXCEPT !.a = lazy_alloc(l.a), !.built = @ \cup {lazy_alloc_ptr(l.a)}]

\* lazy_allocator::dealloc
lifetime_dealloc(l, p) ==
    [lifetime_destroy(l, p) EXCEPT !.a = lazy_dealloc(l.a, p)]

RECURSIVE page_destructor(_, _, _)
\* page::~page: for (i = 0; i < offset; ++i) ptr->~T(); here from slot i on
page_destructor(l, pg, i) ==
    IF i >= l.a.pages[pg] THEN l
    ELSE page_destructor(lifetime_destroy(l, <<pg, i>>), pg, i + 1)

RECURSIVE pages_clear(_, _)
\* pages.clear(): the pages are destroyed in list order, here from page pg on
pages_clear(l, pg) ==
    IF pg > Len(l.a.pages) THEN l
    ELSE pages_clear(page_destructor(l, pg, 0), pg + 1)

\* lazy_allocator::~lazy_allocator
lifetime_destructor(l) ==
    [pages_clear(l, 1) EXCEPT !.a = EmptyAllocator, !.alive = FALSE]

LdSet(l) ==
    /\ ~ld.twice
    /\ ld' = l
    /\ UNCHANGED <<oldVars, stVars, trVars, upVars, srVars, smVars, mpVars, dlVars,
                   rlVars, sbVars, pvVars, mmVars, itVars>>

LdConstruct == ~ld.alive /\ LdSet([NewLifetime EXCEPT !.alive = TRUE])

LdAlloc == ld.alive /\ lazy_can_alloc(ld.a) /\ LdSet(lifetime_alloc(ld))

LdDealloc == ld.alive /\ \E p \in ld.a.live : LdSet(lifetime_dealloc(ld, p))

LdDestruct == ld.alive /\ LdSet(lifetime_destructor(ld))

(***************************************************************************)
(* Two vectors x[1], x[2] over one heap, so that the source of a           *)
(* construction or an assignment can be looked at afterwards.  alive[k]:   *)
(* x[k] is constructed and not yet destroyed.                              *)
(***************************************************************************)
PairIds == {1, 2}

NewPair ==
    [x |-> [k \in PairIds |-> MovedFrom], alive |-> [k \in PairIds |-> FALSE],
     h |-> {}, df |-> FALSE, ub |-> FALSE]

\* x[k] as the vector a method runs on
PairState(k) == [v |-> pv.x[k], h |-> pv.h, df |-> pv.df, ub |-> pv.ub]

\* the pair once the method has left x[k] as s
PairWith(k, s) == [pv EXCEPT !.x[k] = s.v, !.h = s.h, !.df = s.df, !.ub = s.ub]

\* vector::vector(vector &other): the fields of the new vector (other is
\* left as MovedFrom)
vector_construct_from(other) ==
    [init |-> other.init, data |-> other.data, size |-> other.size,
     cap |-> other.cap, elems |-> other.elems]

\* no vector was constructed from or assigned another one by the last call
NoTransfer == [op |-> "other", k |-> 1, o |-> 1, src |-> MovedFrom, had |-> FALSE]

\* src is x[o] before the call, had tells whether x[k] had storage then
PvSet(p, op, k, o) ==
    /\ ~pv.ub /\ ~pv.df
    /\ pv' = p
    /\ pvlast' = IF op = "other" THEN NoTransfer
                  ELSE [op |-> op, k |-> k, o |-> o, src |-> pv.x[o],
                        had |-> pv.x[k].data # Null]
    /\ UNCHANGED <<oldVars, stVars, trVars, upVars, srVars, smVars, mpVars, dlVars,
                   rlVars, sbVars, lfVars, mmVars, itVars>>

\* vector()
PvConstruct(k) ==
    /\ ~pv.alive[k]
    /\ PvSet([pv EXCEPT !.x[k] = DefaultVec, !.alive[k] = TRUE], "other", k, k)

\* vector x_k(x_o)
PvConstructFrom(k, o) ==
    /\ ~pv.alive[k]
    /\ pv.alive[o]
    /\ PvSet([pv EXCEPT !.x[k] = vector_construct_from(pv.x[o]),
                        !.x[o] = MovedFrom,
                        !.alive[k] = TRUE],
             "construct_from", k, o)

PvEmplaceBack(k) ==
    /\ pv.alive[k]
    /\ pv.x[k].size < MaxPairLen
    /\ \E val \in Val : \E s \in vector_emplace_back(PairState(k), val) :
          PvSet(PairWith(k, s), "other", k, k)

PvPopBack(k) ==
    /\ pv.alive[k]
    /\ PvSet(PairWith(k, vector_pop_back(PairState(k))), "other", k, k)

PvClear(k) ==
    /\ pv.alive[k]
    /\ PvSet(PairWith(k, vector_clear(PairState(k))), "other", k, k)

PvShrinkToFit(k) ==
    /\ pv.alive[k]
    /\ \E s \in vector_shrink_to_fit(PairState(k)) :
          PvSet(PairWith(k, s), "other", k, k)

\* x_k = x_o
PvCopyAssign(k, o) ==
    /\ k # o
    /\ pv.alive[k]
    /\ pv.alive[o]
    /\ \E s \in vector_copy_assign(PairState(k), pv.x[o]) :
          PvSet(PairWith(k, s), "copy_assign", k, o)

\* the end of x_k
PvDestruct(k) ==
    /\ pv.alive[k]
    /\ PvSet([PairWith(k, vector_destructor(PairState(k)))
                EXCEPT !.x[k] = MovedFrom, !.alive[k] = FALSE],
             "other", k, k)

(***************************************************************************)
(* magic_number and mod (zelix/container/math_utils.h), the 64-bit branch  *)
(* with the word scaled to WordBits bits: size_t has WordBits bits,        *)
(* magic_type twice as many.                                               *)
(***************************************************************************)
\* (static_cast<magic_type>(1) << 64) / max
magic_number(max) == (2 ^ WordBits) \div max

\* prod = a * magic; quotient = prod >> 64; return a - quotient * b;
mod(a, b, magic) ==
    LET prod == (a * magic) % (2 ^ (2 * WordBits))
        quotient == (prod \div (2 ^ WordBits)) % SizeMod
    IN  (a - quotient * b) % SizeMod

MmSet(m) ==
    /\ mm' = m
    /\ UNCHANGED <<oldVars, stVars, trVars, upVars, srVars, smVars, mpVars, dlVars,
                   rlVars, sbVars, lfVars, pvVars, itVars>>

\* the magic number of a divisor b >= 1
MmMagicNumber ==
    \E b \in 1..(SizeMod - 1) :
        MmSet([b |-> b, magic |-> magic_number(b), a |-> 0, r |-> 0,
               op |-> "magic_number"])

\* mod(a, b, magic_number(b))
MmMod ==
    \E a \in 0..(SizeMod - 1) :
        MmSet([mm EXCEPT !.a = a, !.r = mod(a, mm.b, mm.magic), !.op = "mod"])

(***************************************************************************)
(* algorithm::itoa(long value, char *ptr) (zelix/algorithm/itoa.h) on the  *)
(* i_buffer of ostream::do_write_integral, with long scaled to LongBits    *)
(* bits (two's complement).  A character is its ASCII code; ptr is the     *)
(* buffer, indices from 0.                                                 *)
(***************************************************************************)
\* '0' and '-'
Zero == 48
Minus == 45
\* char i_buffer[32] = {};
IBufferSize == 32
i_buffer == [k \in 0..(IBufferSize - 1) |-> 0]

LongMin == 0 - 2 ^ (LongBits - 1)
LongMax == 2 ^ (LongBits - 1) - 1

\* value = -value: signed overflow for the minimum value, where the build
\* either wraps (the value stays the minimum) or traps
negate(value) ==
    IF value = LongMin
        THEN {[value |-> LongMin, trapped |-> FALSE], [value |-> LongMin, trapped |-> TRUE]}
        ELSE {[value |-> 0 - value, trapped |-> FALSE]}

RECURSIVE count_chars(_, _)
\* while (value_clone > 0) { chars++; value_clone = value_clone / 10; }
count_chars(value_clone, chars) ==
    IF value_clone > 0 THEN count_chars(value_clone \div 10, chars + 1) ELSE chars

RECURSIVE put_digits(_, _, _)
\* while (value > 0) { ptr[index] = '0' + value % 10; index--; value /= 10; }
put_digits(ptr, index, value) ==
    IF value > 0
        THEN put_digits([ptr EXCEPT ![index] = Zero + (value % 10)], index - 1,
                        value \div 10)
        ELSE ptr

\* itoa(value, ptr): the outcomes [ptr, ret, trapped]
itoa(value, ptr) ==
    IF value = 0
        THEN {[ptr |-> [ptr EXCEPT ![0] = Zero], ret |-> 1, trapped |-> FALSE]}
        ELSE { IF n.trapped THEN [ptr |-> ptr, ret |-> 0, trapped |-> TRUE]
               ELSE LET is_negative == value < 0
                        digits == count_chars(n.value, 0)
                        chars == IF is_negative THEN digits + 1 ELSE digits
                        p1 == put_digits(ptr, chars - 1, n.value)
                    IN  [ptr |-> IF is_negative THEN [p1 EXCEPT ![0] = Minus] ELSE p1,
                         ret |-> chars, trapped |-> FALSE]
               : n \in IF value < 0 THEN negate(value)
                       ELSE {[value |-> value, trapped |-> FALSE]} }

ItSet(i) ==
    /\ it' = i
    /\ UNCHANGED <<oldVars, stVars, trVars, upVars, srVars, smVars, mpVars, dlVars,
                   rlVars, sbVars, lfVars, pvVars, mmVars>>

\* do_write_integral: itoa(val, i_buffer) on a zeroed buffer
ItItoa ==
    \E value \in LongMin..LongMax : \E r \in itoa(value, i_buffer) :
        ItSet([op |-> "itoa", value |-> value, ptr |-> r.ptr, ret |-> r.ret,
               trapped |-> r.trapped])

Init ==
    /\ tp \in TParams
    /\ vec = DefaultVec
    /\ heap = {}
    /\ vdf = FALSE
    /\ vub = FALSE
    /\ vhist = "none"
    /\ lcap \in PageCapacities
    /\ la = EmptyAllocator
    /\ lhist = [ret |-> NullPtr, order |-> <<>>, peak |-> 0, opened |-> 0]
    /\ sp = [h \in Handles |-> DeadHandle]
    /\ objA = EmptyAllocator
    /\ rcA = EmptyAllocator
    /\ rcVal = [c \in Slots |-> 0]
    /\ sbad = FALSE
    /\ slast = [op |-> "none", k |-> 0]
    /\ \E max \in RingCapacities : \E content \in [0..(max - 1) -> Byte] :
          ring = NewRing(max, content)
    /\ rlast = [op |-> "none", h |-> 0, buf |-> <<>>, n |-> 0]
    /\ \E max \in OsCapacities : \E content \in [0..(max - 1) -> Byte] :
          os = [buffer |-> NewRing(max, content), fd |-> <<>>, alive |-> TRUE]
    /\ oins = <<>>
    /\ olast = [op |-> "none", pending |-> 0]
    /\ nvec = NewNVector
    /\ nlast = "none"
    /\ \E max \in OsCapacities :
          cos = [buffer |-> NewRing(max, [i \in 0..(max - 1) |-> 1]),
                 fd |-> <<>>, alive |-> TRUE]
    /\ cthr = [t \in Writers |-> [pc |-> "idle", i |-> 0, h |-> 0]]
    /\ athr = [t \in Threads |-> [pc |-> "idle", owned |-> 1]]
    /\ mres = [pages |-> <<>>, size |-> 0,
               data |-> [i \in 0..(MrFreeMax - 1) |-> NullPtr],
               dup |-> FALSE, broken |-> FALSE]
    /\ mthr = [t \in MrThreads |->
                 [pc |-> "idle", p |-> NullPtr, h |-> 0, owned |-> {}]]
    /\ acell = [count |-> NumThreads, obj |-> "live", rc |-> "live", bad |-> FALSE]
    /\ str = NewString
    /\ trie = NewTrie
    /\ up = [h \in Handles |-> DeadUnique]
    /\ uobj = NoObjects
    /\ sres = [init |-> FALSE, data |-> FALSE, cap |-> 0, objs |-> 0]
    /\ srlast = [op |-> "none", raw |-> "block", kind |-> "value", p |-> TRUE]
    /\ stm = NewStream
    /\ stmlast = [op |-> "stream", arg |-> 0, pre |-> NewStream, ret |-> Void]
    /\ mp = NewMemShared
    /\ mplast = [op |-> "none", k |-> 0, cell |-> 0, live |-> {}, cells |-> {}]
    /\ dl = NewDelist
    /\ dllast = [op |-> "delist", empty |-> TRUE]
    /\ rl = NoReallocate
    /\ sb = [NewOwned EXCEPT !.alive = FALSE]
    /\ ld = NewLifetime
    /\ pv = NewPair
    /\ pvlast = NoTransfer
    /\ mm = [b |-> 1, magic |-> magic_number(1), a |-> 0, r |-> 0, op |-> "magic_number"]
    /\ it = [op |-> "none", value |-> 0, ptr |-> i_buffer, ret |-> 0, trapped |-> FALSE]
    /\ tins = [words |-> {}, calls |-> 0]
    /\ strlast = [op |-> "string", arg |-> <<>>, pre |-> NewString]

\* every specification fixes the template parameters of the other components
FixedVec == tp = [ic |-> 2, num |-> 2, den |-> 1]
FixedLazy == lcap = 2
FixedRing == ring.data = [i \in DOMAIN ring.data |-> 1]
FixedOs == os.buffer.max = 3 /\ os.buffer.data = [i \in DOMAIN os.buffer.data |-> 1]
FixedCo == cos.buffer.max = 3
InitVec == Init /\ FixedLazy /\ FixedRing /\ FixedOs /\ FixedCo
InitLazy == Init /\ FixedVec /\ FixedRing /\ FixedOs /\ FixedCo
InitRing == Init /\ FixedVec /\ FixedLazy /\ FixedOs /\ FixedCo
InitCo == Init /\ FixedVec /\ FixedLazy /\ FixedRing /\ FixedOs
InitMr == Init /\ FixedVec /\ FixedLazy /\ FixedRing /\ FixedOs /\ FixedCo
\* the ostream never reads a slot of its buffer before storing to it
InitOs ==
    /\ Init /\ FixedVec /\ FixedLazy /\ FixedRing /\ FixedCo
    /\ os.buffer.data = [i \in DOMAIN os.buffer.data |-> 1]

NextVec ==
    \/ VecEmplaceBack
    \/ VecPopBack
    \/ VecPopBackMove
    \/ VecClear
    \/ VecShrinkToFit
    \/ VecReserve
    \/ VecCopyAssign
    \/ VecMoveAssign

NextLazy ==
    \/ LaAlloc
    \/ LaDealloc

NextShared ==
    \/ \E h \in Handles : SpConstruct(h)
    \/ \E h \in Handles : SpConstructNull(h)
    \/ \E h, o \in Handles : SpCopyConstruct(h, o)
    \/ \E h, o \in Handles : SpMoveConstruct(h, o)
    \/ \E h, o \in Handles : SpCopyAssign(h, o)
    \/ \E h, o \in Handles : SpMoveAssign(h, o)
    \/ \E h \in Handles : SpDestruct(h)

NextRing ==
    \/ RbPushBack
    \/ RbEmplaceBack
    \/ RbAdvance
    \/ RbFlush
    \/ RbWrite

NextOs ==
    \/ OsInsertString
    \/ OsInsertCStr
    \/ OsInsertChar
    \/ OsFlush
    \/ OsDestroy

NextNVec ==
    \/ NvEmplaceBack
    \/ NvPopBack
    \/ NvPopBackMove
    \/ NvClear
    \/ NvShrinkToFit
    \/ NvReserve
    \/ NvDestructor

\* a vector of a non-trivial T from construction to destruction
SpecNVec == InitVec /\ [][NextNVec]_vars

NextAtomic ==
    \E t \in Threads :
        \/ AtCopyBegin(t)
        \/ AtAddRefCount(t)
        \/ AtDestructor(t)
        \/ AtDestroyObject(t)
        \/ AtDestroyCount(t)

\* threads copying and destroying atomic shared pointers to one object
SpecAtomic == InitVec /\ [][NextAtomic]_vars

NextCo ==
    \E t \in Writers :
        \/ CoBegin(t)
        \/ CoLoop(t)
        \/ CoLoadHead(t)
        \/ CoStore(t)

NextMr ==
    \E t \in MrThreads :
        \/ MrAllocBegin(t)
        \/ MrReadTop(t)
        \/ MrPop(t)
        \/ MrCheckPages(t)
        \/ MrOpenPage(t)
        \/ MrPageSlot(t)
        \/ MrPageBump(t)
        \/ MrDeallocBegin(t)
        \/ MrPushStore(t)

\* two threads allocating from and returning to one monotonic resource
SpecMr == InitMr /\ [][NextMr]_vars

NextStr ==
    \/ StConstruct
    \/ StConstructFrom
    \/ StNoCopy
    \/ StReserve
    \/ StPushChar
    \/ StPush
    \/ StCStr
    \/ StClear

NextSys ==
    \/ SrAllocate
    \/ SrDeallocate
    \/ SrVectorInit
    \/ SrVectorResize
    \/ SrVectorDestroy

\* the system resources when malloc, realloc and operator new may fail
SpecSys == InitMr /\ [][NextSys]_vars

NextStream ==
    \/ SmPush
    \/ SmPeek
    \/ SmCurr
    \/ SmNext
    \/ SmReset
    \/ SmSetPos

\* a stream under push, peek, curr, next, reset and set_pos
SpecStream == InitMr /\ [][NextStream]_vars

NextMemShared ==
    \/ \E h \in Handles : MpConstruct(h)
    \/ \E h, o \in Handles : MpMoveConstruct(h, o)
    \/ \E h, o \in Handles : MpCopyConstruct(h, o)
    \/ \E h, o \in Handles : MpMoveAssign(h, o)
    \/ \E h \in Handles : MpDestruct(h)

\* the shared pointers of zelix/memory under construction, copy, move and
\* destruction
SpecMemShared == InitMr /\ [][NextMemShared]_vars

NextDelist ==
    \/ DlPushFront
    \/ DlPushBack
    \/ DlPopFront
    \/ DlPopBack
    \/ DlClear
    \/ DlStackPush
    \/ DlStackPop

\* a delist, and the stack on it, under push, emplace, pop and clear
SpecDelist == InitMr /\ [][NextDelist]_vars

NextRealloc ==
    \/ RlBegin
    \/ RlMove
    \/ RlRelease

\* calls of system_array_resource<T>::reallocate for a T that is not trivial
SpecRealloc == InitMr /\ [][NextRealloc]_vars

NextOwned ==
    \/ SbConstruct
    \/ SbPush
    \/ SbReserve
    \/ SbCStr
    \/ SbCopyAssign
    \/ SbDestruct

\* a string and its buffer under construction, push, reserve, c_str,
\* copy assignment and destruction
SpecOwned == InitMr /\ [][NextOwned]_vars

NextLifetime ==
    \/ LdConstruct
    \/ LdAlloc
    \/ LdDealloc
    \/ LdDestruct

\* lazy allocators from construction to destruction
SpecLifetime == InitMr /\ [][NextLifetime]_vars

NextPair ==
    \/ \E k \in PairIds : PvConstruct(k)
    \/ \E k, o \in PairIds : PvConstructFrom(k, o)
    \/ \E k \in PairIds : PvEmplaceBack(k)
    \/ \E k \in PairIds : PvPopBack(k)
    \/ \E k \in PairIds : PvClear(k)
    \/ \E k \in PairIds : PvShrinkToFit(k)
    \/ \E k, o \in PairIds : PvCopyAssign(k, o)
    \/ \E k \in PairIds : PvDestruct(k)

\* two vectors constructed from and assigned to each other
SpecPair == InitMr /\ [][NextPair]_vars

NextMath ==
    \/ MmMagicNumber
    \/ MmMod

\* magic_number for every divisor and mod for every dividend
SpecMath == InitMr /\ [][NextMath]_vars

NextItoa == ItItoa

\* itoa on every value of the integer type
SpecItoa == InitMr /\ [][NextItoa]_vars

NextUnique ==
    \/ \E h \in Handles : UpConstruct(h)
    \/ \E h, o \in Handles : UpMoveConstruct(h, o)
    \/ \E h, o \in Handles : UpMoveAssign(h, o)
    \/ \E h \in Handles : UpRelease(h)
    \/ \E h \in Handles : UpReset(h)
    \/ \E h \in Handles : UpEndOfScope(h)

\* unique_ptr variables under construction, move, release, reset, end of scope
SpecUnique == InitMr /\ [][NextUnique]_vars

NextTrie ==
    \/ TrInsert

\* a trie under insert
SpecTrie == InitMr /\ [][NextTrie]_vars

\* an owned string under its constructors, reserve, push, c_str and clear
SpecStr == InitMr /\ [][NextStr]_vars

\* two threads inserting into one stl::concurrent_ostream
SpecCo == InitCo /\ [][NextCo]_vars

\* a ring buffer under its write operations
SpecRing == InitRing /\ [][NextRing]_vars

\* an ostream from construction to destruction
SpecOs == InitOs /\ [][NextOs]_vars

\* a lazy allocator under alloc and dealloc
SpecLazy == InitLazy /\ [][NextLazy]_vars

\* shared_ptr handles under construction, copy, move, assignment, destruction
SpecShared == InitLazy /\ [][NextShared]_vars

\* a vector under every sequence of its operations
SpecVec == InitVec /\ [][NextVec]_vars

\* a fresh vector under push_back alone
SpecVecPush == InitVec /\ [][VecEmplaceBack]_vars

(***************************************************************************)
(* Claims about pmr::vector.                                               *)
(***************************************************************************)
\* C1: in every state reachable from a default-constructed vector by
\* emplace_back, pop_back, pop_back_move, clear, reserve, shrink_to_fit and
\* the two assignments, size() <= capacity().
C1_SizeLeCapacity == vec.size <= vec.cap

\* the lazy state pop_back leaves behind when it releases the storage
LazyVec ==
    [init |-> FALSE, data |-> Null, size |-> 0, cap |-> 0, elems |-> <<>>]

\* C9: a pop_back that brings an initialized vector to size 0 releases the
\* storage exactly once and leaves initialized == false, data == null,
\* capacity == 0; the emplace_back that follows allocates InitialCapacity
\* slots and leaves size == 1 with the pushed element at index 0.
C9_PopToZeroThenPush ==
    [][ /\ (vec.init /\ vec.size = 1 /\ VecPopBack) =>
            /\ vec' = LazyVec
            /\ vec.data # Null => vec.data \in LiveIds(heap)
            /\ heap' = {b \in heap : b[1] # vec.data}
            /\ vdf' = vdf
        /\ \A val \in Val :
            (vhist = "released" /\ VecEmplaceBackVal(val)) =>
                /\ vec = LazyVec
                /\ vec'.init
                /\ vec'.size = 1
                /\ vec'.cap = tp.ic
                /\ vec'.elems = <<val>>
                /\ vec'.data \notin LiveIds(heap) \cup {Null}
                /\ heap' = heap \cup {<<vec'.data, tp.ic>>}
                /\ ~vub'
      ]_vars

\* C9 witness: an emplace_back has just run on a vector whose storage the
\* preceding pop_back released
C9_Witness == vhist = "reborn" /\ vec.size = 1 /\ vec.init

RECURSIVE Pow(_, _)
Pow(b, k) == IF k = 0 THEN 1 ELSE b * Pow(b, k - 1)

\* ceil(c * g^k) for g = num/den
CeilScaled(c, num, den, k) ==
    (c * Pow(num, k) + Pow(den, k) - 1) \div Pow(den, k)

RECURSIVE SmallestCeilFrom(_, _, _, _, _)
\* the smallest ceil(c * g^j), j >= k, that is >= n
SmallestCeilFrom(c, num, den, n, k) ==
    IF CeilScaled(c, num, den, k) >= n
        THEN CeilScaled(c, num, den, k)
        ELSE SmallestCeilFrom(c, num, den, n, k + 1)

\* C10: after n >= 1 push_back operations on a fresh vector, capacity() is
\* the smallest ceil(c * g^k), k >= 0, that is >= n.
C10_CapacityClosedForm ==
    vec.size >= 1 =>
        vec.cap = SmallestCeilFrom(tp.ic, tp.num, tp.den, vec.size, 0)

(***************************************************************************)
(* Claims about the shared pointer (zelix/shared_ptr.h, RC mode).          *)
(***************************************************************************)
Owners(p) == {h \in Handles : sp[h].alive /\ sp[h].ptr = p}
Sharers(c) == {h \in Handles : sp[h].alive /\ sp[h].rc = c}

\* C2: over every sequence of construct, copy- and move-construct, copy- and
\* move-assign and destruct, no object or count is destroyed or released
\* twice, an object and its count are live exactly while some handle owns
\* them (so they are released when the last owner goes, and not before), and
\* the count equals the number of owning handles.
C2_DestroyedExactlyOnce ==
    /\ ~objA.bad /\ ~rcA.bad /\ ~objA.dup /\ ~rcA.dup /\ ~sbad
    /\ \A p \in Slots : p \in objA.live <=> Owners(p) # {}
    /\ \A c \in Slots : c \in rcA.live <=> Sharers(c) # {}
    /\ \A h \in Handles :
        (sp[h].alive /\ sp[h].ptr # NullPtr) =>
            /\ sp[h].rc # NullPtr
            /\ rcVal[sp[h].rc] = Cardinality(Sharers(sp[h].rc))
            /\ Sharers(sp[h].rc) = Owners(sp[h].ptr)

\* C2 witness: the destructor of the last owner has just run (count 1 -> 0)
\* and its object and count are back in the resources' free lists
C2_Witness ==
    /\ slast = [op |-> "destruct", k |-> 1]
    /\ objA.live = {} /\ objA.free # <<>>
    /\ rcA.live = {} /\ rcA.free # <<>>

\* C3: copy-constructing h from an owning o with count k leaves both on the
\* same count cell with value k + 1; destroying one of two handles that
\* share a cell leaves the other unchanged, its object live, the count k.
C3_CopyCounts ==
    [][ \A h, o \in Handles :
          /\ (sp[o].alive /\ sp[o].ptr # NullPtr /\ ~sp[h].alive
                /\ SpCopyConstruct(h, o)) =>
                /\ sp'[h].rc = sp[o].rc
                /\ sp'[h].ptr = sp[o].ptr
                /\ sp'[o] = sp[o]
                /\ rcVal'[sp[o].rc] = rcVal[sp[o].rc] + 1
          /\ (o # h /\ sp[h].alive /\ sp[o].alive
                /\ sp[h].rc # NullPtr /\ sp[o].rc = sp[h].rc
                /\ SpDestruct(h)) =>
                /\ sp'[o] = sp[o]
                /\ rcVal'[sp[o].rc] = rcVal[sp[o].rc] - 1
                /\ sp[o].ptr \in objA'.live
      ]_vars

\* C3 witness (scenario C): the count was 3 and one handle was dropped; the
\* two handles left share the cell, which holds 2
C3_Witness ==
    /\ slast = [op |-> "destruct", k |-> 3]
    /\ \E h, o \in Handles :
        /\ h # o
        /\ sp[h].alive /\ sp[o].alive
        /\ sp[h].rc # NullPtr /\ sp[h].rc = sp[o].rc
        /\ rcVal[sp[h].rc] = 2

(***************************************************************************)
(* Claims about the lazy allocator.                                        *)
(***************************************************************************)
\* C4: when dealloc is only given live pointers, alloc never hands out a
\* pointer that is live, no live pointer is in the free list, and the free
\* list holds no pointer twice.
C4_LivePointersDistinct ==
    /\ ~la.dup
    /\ \A i \in 1..Len(la.free) : la.free[i] \notin la.live
    /\ \A i, j \in 1..Len(la.free) : i # j => la.free[i] # la.free[j]

\* C4 witness: an alloc served from the free list while other pointers are
\* live and another pointer is still in the free list
C4_Witness ==
    /\ lcap = 2
    /\ la.pages = <<2, 1>>
    /\ Cardinality(la.live) = 2
    /\ Len(la.free) = 1

(***************************************************************************)
(* Claims about the ring buffer and the ostream.                           *)
(***************************************************************************)
\* C5: after write<true>(buf, n), n <= Capacity, from head h: for every
\* i < n the slot (h + i) mod Capacity holds buf[i], and head is h + n when
\* h + n <= Capacity and h + n - Capacity otherwise.
C5_WritePlacesBytes ==
    rlast.op = "write" =>
        /\ \A i \in 0..(rlast.n - 1) :
              ring.data[(rlast.h + i) % ring.max] = rlast.buf[i + 1]
        /\ ring.head = IF rlast.h + rlast.n <= ring.max
                          THEN rlast.h + rlast.n
                          ELSE rlast.h + rlast.n - ring.max

\* C6: the bytes written to the file descriptor followed by the bytes
\* pending in the buffer are the inserted bytes, in insertion order.
C6_NoByteLost == os.fd \o Pending = oins

\* C7: the destructor writes every byte pending in the buffer to the file
\* descriptor, after the bytes already there, and leaves the buffer empty.
C7_DestructorFlushes ==
    [][ OsDestroy => /\ os'.fd = os.fd \o Pending
                     /\ os'.buffer.head = 0
                     /\ ~os'.alive ]_vars

\* C7 witness (scenario F): an ostream destroyed with bytes pending and no
\* flush before; exactly the inserted bytes are on the file descriptor
C7_Witness ==
    /\ ~os.alive
    /\ olast.op = "destroy"
    /\ olast.pending = Len(oins)
    /\ olast.pending > 0
    /\ os.fd = oins

\* C8: no call of write<false> by the ostream stores a byte at an index
\* >= Capacity, and the buffer cursor never exceeds Capacity.
C8_UncheckedWriteInBounds == ~os.buffer.oob /\ os.buffer.head <= os.buffer.max

(***************************************************************************)
(* Further claims about the vector.                                        *)
(***************************************************************************)
\* C11: an emplace_back that finds size == capacity on an initialized vector
\* leaves a capacity strictly greater than the one it found.
C11_GrowthStrictlyIncreases ==
    [][ (vec.init /\ vec.size = vec.cap /\ VecEmplaceBack) =>
            vec'.cap > vec.cap ]_vars

(***************************************************************************)
(* The vector under emplace_back, pop_back, clear, reserve and             *)
(* shrink_to_fit, with vhist remembering ("shrunk") that a pop_back has    *)
(* brought an initialized vector to size 0.                                *)
(***************************************************************************)
LSet(s, shrunk) ==
    /\ vec' = s.v
    /\ heap' = s.h
    /\ vdf' = s.df
    /\ vub' = s.ub
    /\ vhist' = IF shrunk \/ vhist = "shrunk" THEN "shrunk" ELSE "none"
    /\ UNCHANGED <<tp, laVars, spVars, rbVars, osVars, nvVars, atVars, coVars, mrVars,
                   newVars>>

LzEmplaceBack ==
    /\ ~vub
    /\ vec.size < MaxLen
    /\ \E val \in Val : \E s \in vector_emplace_back(VState, val) : LSet(s, FALSE)

LzPopBack ==
    /\ ~vub
    /\ LSet(vector_pop_back(VState), vec.init /\ vec.size = 1)

LzClear ==
    /\ ~vub
    /\ LSet(vector_clear(VState), FALSE)

LzShrinkToFit ==
    /\ ~vub
    /\ \E s \in vector_shrink_to_fit(VState) : LSet(s, FALSE)

LzReserve ==
    /\ ~vub
    /\ \E n \in 1..MaxReserve : \E s \in vector_reserve(VState, n) : LSet(s, FALSE)

NextVecLazy ==
    \/ LzEmplaceBack
    \/ LzPopBack
    \/ LzClear
    \/ LzShrinkToFit
    \/ LzReserve

SpecVecLazy == InitVec /\ [][NextVecLazy]_vars

\* C12: in every state after the first pop_back that shrank the vector to
\* size 0, data == null, initialized == false and capacity == 0 are all true
\* or all false.
C12_LazyFieldsAgree ==
    vhist = "shrunk" =>
        /\ (vec.data = Null) <=> ~vec.init
        /\ ~vec.init <=> (vec.cap = 0)

(***************************************************************************)
(* vector::operator[] and vector::ref_at.  The result is                   *)
(*   [kind |-> "uninitialized_memory", "out_of_range", "value" or "fault", *)
(*    val  |-> the element referred to, s |-> the state afterwards].       *)
(* data[index] outside the block, or in a block that was released, can     *)
(* fault or yield any value; a slot of the block above the stored          *)
(* elements holds whatever was left there.                                 *)
(***************************************************************************)
vector_at(s, index) ==
    IF ~s.v.init
        THEN {[kind |-> "uninitialized_memory", val |-> 0, s |-> s]}
    ELSE IF index >= s.v.size
        THEN {[kind |-> "out_of_range", val |-> 0, s |-> s]}
    ELSE IF s.v.data \in LiveIds(s.h) /\ index < BlockLen(s.h, s.v.data)
        THEN IF index < Len(s.v.elems)
                THEN {[kind |-> "value", val |-> s.v.elems[index + 1], s |-> s]}
                ELSE {[kind |-> "value", val |-> x, s |-> s] : x \in Val}
    ELSE {[kind |-> "value", val |-> x, s |-> [s EXCEPT !.ub = TRUE]] : x \in Val}
            \cup {[kind |-> "fault", val |-> 0, s |-> [s EXCEPT !.ub = TRUE]]}

\* C13: operator[] raises UninitializedMemory on a vector that is not
\* initialized, raises OutOfRange for every index >= size on an initialized
\* one and returns the element otherwise; the error cases change nothing.
\* (Stated for the states in which this vector has made no out-of-bounds
\* store.)
C13_IndexingChecks ==
    ~vub => \A index \in 0..(SizeMod - 1) : \A r \in vector_at(VState, index) :
        /\ ~vec.init => (r.kind = "uninitialized_memory" /\ r.s = VState)
        /\ (vec.init /\ index >= vec.size) =>
                (r.kind = "out_of_range" /\ r.s = VState)
        /\ (vec.init /\ index < vec.size) =>
                /\ r.kind = "value"
                /\ index < Len(vec.elems)
                /\ r.val = vec.elems[index + 1]
                /\ r.s = VState

\* C14: after clear() size is 0 and every object that was an element has had
\* its destructor invoked exactly once; no later operation invokes it again.
C14_ClearDestroysOnce ==
    /\ nlast = "clear" => nvec.v.size = 0
    /\ \A o \in nvec.cl : nvec.dt[o] = 1

\* C15: reserve(n), n >= 1, called in any reachable state, leaves
\* capacity >= n, the vector initialized and data pointing to a live block of
\* capacity slots, with size and the elements unchanged.
C15_ReserveAllocates ==
    ~vub => \A n \in 1..MaxReserve : \A s \in vector_reserve(VState, n) :
        /\ s.v.cap >= n
        /\ s.v.init
        /\ s.v.data # Null
        /\ <<s.v.data, s.v.cap>> \in s.h
        /\ s.v.size = vec.size
        /\ s.v.elems = vec.elems

(***************************************************************************)
(* Claims about the atomic shared pointer.                                 *)
(***************************************************************************)
\* the handles that are live or being constructed
LiveHandles(t) ==
    athr[t].owned + (IF athr[t].pc = "add_ref_count" THEN 1 ELSE 0)

RECURSIVE SumOwned(_)
SumOwned(n) == IF n = 0 THEN 0 ELSE athr[n].owned + SumOwned(n - 1)

\* C16: under every interleaving the count is the number of live handles
\* (none lost, none counted twice), the object and its count are released at
\* most once and only by the thread whose decrement reached 0, and while a
\* thread holds a live handle neither has been released.
C16_AtomicCountExact ==
    /\ acell.obj # "twice" /\ acell.rc # "twice" /\ ~acell.bad
    /\ acell.count = SumOwned(NumThreads)
    /\ (\E t \in Threads : LiveHandles(t) > 0) =>
            (acell.obj = "live" /\ acell.rc = "live")
    /\ (\A t \in Threads : LiveHandles(t) = 0 /\ athr[t].pc = "idle") =>
            (acell.obj = "freed" /\ acell.rc = "freed")
    /\ (acell.obj = "freed") =>
            /\ acell.count = 0
            /\ Cardinality({t \in Threads : athr[t].pc = "destroy_count"})
                 = (IF acell.rc = "live" THEN 1 ELSE 0)

\* C16 witness: every handle is gone, and the object and its count were
\* released once by the thread that dropped the last one
C16_Witness ==
    /\ \A t \in Threads : athr[t].owned = 0 /\ athr[t].pc = "idle"
    /\ acell.obj = "freed" /\ acell.rc = "freed"

(***************************************************************************)
(* Claims about the concurrent ostream.                                    *)
(***************************************************************************)
\* the bytes written to the descriptor followed by the bytes in the buffer
CoOutput == cos.fd \o [i \in 1..cos.buffer.head |-> cos.buffer.data[i - 1]]

\* C17: two concurrent insertions are serialized: at most one thread is
\* inside an insertion at a time, and after both the output is one string
\* followed by the other, no byte of one among the bytes of the other.
C17_InsertionsSerialized ==
    /\ Cardinality({t \in Writers : cthr[t].pc \notin {"idle", "done"}}) <= 1
    /\ (\A t \in Writers : cthr[t].pc = "done") =>
            CoOutput \in { InsertionOf(1) \o InsertionOf(2),
                           InsertionOf(2) \o InsertionOf(1) }

(***************************************************************************)
(* C19: lazy_allocator::alloc with a non-empty free list returns the       *)
(* pointer most recently given to dealloc and constructs no page;          *)
(* with an empty free list it constructs one page exactly when there is    *)
(* no page or the tail page is full, and returns the next slot of the tail *)
(* page, whose offset it advances by one.                                  *)
(***************************************************************************)
C19_AllocReusesThenBumps ==
    [][ LaAlloc =>
          IF la.free # <<>>
             THEN /\ lhist.order # <<>>
                  /\ lhist'.ret = lhist.order[Len(lhist.order)]
                  /\ la'.pages = la.pages
                  /\ Len(la'.free) = Len(la.free) - 1
             ELSE LET n == Len(la.pages)
                      opens == n = 0 \/ la.pages[n] >= lcap
                      slot == IF opens THEN 0 ELSE la.pages[n]
                  IN  /\ Len(la'.pages) = IF opens THEN n + 1 ELSE n
                      /\ \A i \in 1..n : i # Len(la'.pages) =>
                                            la'.pages[i] = la.pages[i]
                      /\ lhist'.ret = <<Len(la'.pages), slot>>
                      /\ la'.pages[Len(la'.pages)] = slot + 1
                      /\ la'.free = <<>> ]_vars

\* Scenario D: a, b fill page 1, c opens page 2, b is returned, and the next
\* alloc hands b out again while page 2 still has one object
C19_Witness ==
    /\ lcap = 2
    /\ la.pages = <<2, 1>>
    /\ la.live = {<<1, 0>>, <<1, 1>>, <<2, 0>>}
    /\ la.free = <<>>
    /\ lhist.ret = <<1, 1>>
    /\ lhist.opened = 2

(***************************************************************************)
(* C20: the pages a lazy_allocator constructed number at most              *)
(* ceil(L / Capacity), L the largest number of objects that were live at   *)
(* once, and every page constructed is still in the list of pages.         *)
(***************************************************************************)
CeilDiv(a, b) == (a + b - 1) \div b

C20_PagesBoundedByPeak ==
    /\ lhist.opened <= CeilDiv(lhist.peak, lcap)
    /\ Len(la.pages) = lhist.opened

\* objects were returned and allocated again after a second page was opened,
\* and the live objects are fewer than the peak
C20_Witness ==
    /\ lhist.opened = 2
    /\ lhist.peak = lcap + 1
    /\ Cardinality(la.live) < lhist.peak
    /\ lhist.ret \in la.live
    /\ lhist.ret[1] = 1
    /\ Len(la.free) >= 1

(***************************************************************************)
(* C18: allocate and deallocate of the monotonic resource are serialized:  *)
(* at most one thread is inside alloc or dealloc at any time, and no       *)
(* pointer is handed out while a thread still owns it.                     *)
(***************************************************************************)
C18_ResourceSerialized ==
    /\ Cardinality({t \in MrThreads : mthr[t].pc # "idle"}) <= 1
    /\ ~mres.dup
    /\ \A t, u \in MrThreads : t # u => mthr[t].owned \cap mthr[u].owned = {}

(***************************************************************************)
(* C21: c_str() on a string with a buffer leaves len and the bytes         *)
(* buffer[0 .. len) as they were and stores '\0' at buffer[len], inside    *)
(* the allocated block, so the C string has length size(); on a string     *)
(* without a buffer it raises UninitializedMemory and changes nothing.     *)
(***************************************************************************)
C21_CStrTerminated ==
    /\ strlast.op = "value" =>
          /\ strlast.pre.buffer /\ str.buffer
          /\ str.len = strlast.pre.len
          /\ \A i \in 1..str.len : str.data[i] = strlast.pre.data[i] /\ str.data[i] # Nul
          /\ str.len + 1 <= Len(str.data)
          /\ Len(str.data) = str.capacity
          /\ str.data[str.len + 1] = Nul
          /\ ~str.oob
    /\ strlast.op = "uninitialized_memory" => ~strlast.pre.buffer /\ str = strlast.pre
    /\ ~str.buffer => string_c_str(str).kind = "uninitialized_memory"

\* c_str() on a string made by no_copy, whose len equals its capacity
C21_Witness ==
    /\ strlast.op = "value"
    /\ strlast.pre.len = strlast.pre.capacity
    /\ str.len = 2
    /\ str.data[3] = Nul

(***************************************************************************)
(* C22: c_str() raises the capacity by at most one byte, and a c_str()     *)
(* right after a c_str() changes neither len, capacity, max_capacity nor   *)
(* the bytes of the buffer.                                                *)
(***************************************************************************)
C22_CStrGrowsByOne ==
    strlast.op = "value" =>
        /\ str.capacity <= strlast.pre.capacity + 1
        /\ string_c_str(str).s = str

(***************************************************************************)
(* C23: operator== is true exactly when the two strings have the same      *)
(* length and the same bytes, whether or not either has a buffer.          *)
(***************************************************************************)
OtherStrings ==
    {NewString} \cup {string_with_capacity(n) : n \in 0..1}
                \cup {string_from(b) : b \in PushArgs}
                \cup {string_no_copy(b) : b \in PushArgs}

SameBytes(a, b) ==
    /\ a.len = b.len
    /\ \A i \in 1..a.len : a.data[i] = b.data[i]

C23_EqualsIsByteWise ==
    \A o \in OtherStrings : string_equals(str, o) <=> SameBytes(str, o)

(***************************************************************************)
(* C24: push(c) and push(s, n) return; afterwards len has grown by the     *)
(* count pushed, the bytes pushed follow the former ones,                  *)
(* len <= max_capacity = capacity - 1, and when the buffer had to grow     *)
(* the room is the first of capacity * g, capacity * g * g, ... that       *)
(* holds the new length.                                                   *)
(***************************************************************************)
RECURSIVE GrowTimes(_, _)
GrowTimes(c, k) == IF k = 0 THEN c ELSE GrowString(GrowTimes(c, k - 1))

C24_PushGrows ==
    strlast.op = "push" =>
        LET pre == strlast.pre
            n == Len(strlast.arg)
        IN  /\ ~str.hang
            /\ str.len = pre.len + n
            /\ \A i \in 1..pre.len : str.data[i] = pre.data[i]
            /\ \A i \in 1..n : str.data[pre.len + i] = strlast.arg[i]
            /\ str.len <= str.max_capacity
            /\ str.max_capacity = str.capacity - 1
            /\ (pre.buffer /\ pre.max_capacity <= pre.len + n) =>
                  \E k \in 1..MaxCapacity :
                      /\ str.max_capacity = GrowTimes(pre.capacity, k)
                      /\ \A j \in 1..(k - 1) : GrowTimes(pre.capacity, j) < str.len

(***************************************************************************)
(* C25: search(w) is true exactly when insert was called with a word that  *)
(* equals w once both are folded to lower case: prefixes and extensions of *)
(* w never make search(w) true, a case variant of w does.                  *)
(***************************************************************************)
Folded(w) == [i \in 1..Len(w) |-> to_lower(w[i])]

C25_SearchIffInsertedFolded ==
    \A w \in Words :
        trie_search(trie, w) <=> \E v \in tins.words : Folded(v) = Folded(w)

\* "Ab" was inserted, "ab" and "a" were not: "ab" is found, "a" is not
C25_Witness ==
    /\ <<UpperA, LowerA + 1>> \in tins.words
    /\ <<LowerA, LowerA + 1>> \notin tins.words
    /\ <<LowerA>> \notin tins.words /\ <<UpperA>> \notin tins.words
    /\ trie_search(trie, <<LowerA, LowerA + 1>>)
    /\ ~trie_search(trie, <<LowerA>>)

\* C25 as stated: search(w) is true exactly when insert was called with w
\* itself, so that a case variant of w does not make search(w) true
C25_SearchIffInsertedExactly ==
    \A w \in Words : trie_search(trie, w) <=> w \in tins.words

(***************************************************************************)
(* C26: an object no unique_ptr holds any more, and that was not given to  *)
(* the caller by release(), has been deallocated, and no object is         *)
(* deallocated more than once.                                             *)
(***************************************************************************)
HeldBy == {up[h].ptr : h \in {g \in Handles : up[g].alive}} \ {Null}

C26_DroppedObjectFreedOnce ==
    \A p \in 1..(uobj.next - 1) :
        /\ uobj.freed[p] <= 1
        /\ (p \notin HeldBy /\ p \notin uobj.raw) => uobj.freed[p] = 1

(***************************************************************************)
(* C27: a move constructor or move assignment from another unique_ptr      *)
(* leaves the source null and gives the destination the source's pointer;  *)
(* release() leaves the unique_ptr null, hands its pointer to the caller   *)
(* and deallocates nothing; no two unique_ptrs hold the same object.       *)
(***************************************************************************)
C27_MoveLeavesSourceNull ==
    /\ [](\A h, o \in Handles :
             (h # o /\ up[h].alive /\ up[o].alive /\ up[h].ptr # Null)
                 => up[h].ptr # up[o].ptr)
    /\ [][ /\ \A h, o \in Handles :
                (h # o /\ (UpMoveConstruct(h, o) \/ UpMoveAssign(h, o))) =>
                    up'[o].ptr = Null /\ up'[h].ptr = up[o].ptr
           /\ \A h \in Handles :
                UpRelease(h) =>
                    /\ up'[h].ptr = Null
                    /\ up[h].ptr # Null => up[h].ptr \in uobj'.raw
                    /\ uobj'.live = uobj.live /\ uobj'.freed = uobj.freed ]_vars

\* one unique_ptr was emptied by a move, another holds an object, and the
\* caller holds a released pointer
C27_Witness ==
    /\ \E h, o \in Handles :
          /\ up[h].alive /\ up[h].ptr = Null
          /\ up[o].alive /\ up[o].ptr # Null /\ up[o].ptr \in uobj.live
    /\ uobj.raw # {}
    /\ \E p \in uobj.raw : p \in uobj.live

(***************************************************************************)
(* C28: when the raw allocator fails, allocate and reallocate of the       *)
(* system resources raise FailedAlloc; a call that returns gives a pointer *)
(* that is not null, and no vector is initialized with null storage.       *)
(***************************************************************************)
C28_AllocationFailureRaises ==
    /\ srlast.raw # "block" => srlast.kind = "failed_alloc"
    /\ (srlast.kind = "value" /\ srlast.op # "none") => srlast.p
    /\ sres.init => sres.data

(***************************************************************************)
(* C29: the cursor of a stream stays within 0..size under push, peek,      *)
(* curr, next, reset and set_pos.  set_pos(n) with n > size throws and     *)
(* leaves the stream as it was, with n <= size it sets pos to n.  next()   *)
(* returns none without advancing exactly when pos = size; otherwise it    *)
(* returns the element at pos and advances by one.                         *)
(***************************************************************************)
C29_CursorInBounds ==
    /\ 0 <= stm.pos /\ stm.pos <= Len(stm.data)
    /\ stmlast.op = "set_pos" =>
          IF stmlast.arg > Len(stmlast.pre.data)
              THEN stmlast.ret = OutOfBounds /\ stm = stmlast.pre
              ELSE stmlast.ret = Void /\ stm.pos = stmlast.arg
                      /\ stm.data = stmlast.pre.data
    /\ stmlast.op = "next" =>
          /\ stmlast.ret = None <=> stmlast.pre.pos = Len(stmlast.pre.data)
          /\ stmlast.ret = None => stm = stmlast.pre
          /\ stmlast.ret # None =>
                /\ stm.pos = stmlast.pre.pos + 1
                /\ stmlast.ret = Some(stmlast.pre.data[stmlast.pre.pos + 1])
                /\ stm.data = stmlast.pre.data

\* set_pos beyond the end of a stream whose cursor has advanced was refused
C29_Witness ==
    /\ stmlast.op = "set_pos"
    /\ stmlast.arg > Len(stm.data)
    /\ stmlast.ret = OutOfBounds
    /\ stm.pos > 0

(***************************************************************************)
(* C30: under push_back, emplace_back, advance, flush and write<true> of   *)
(* at most Capacity bytes, head stays within 0..Capacity, nothing is       *)
(* stored at an index >= Capacity, and full() holds exactly when head is   *)
(* Capacity.                                                               *)
(***************************************************************************)
C30_HeadWithinCapacity ==
    /\ 0 <= ring.head /\ ring.head <= ring.max
    /\ ~ring.oob
    /\ rlast.op \in {"push_back", "emplace_back"} =>
          ring.head - 1 \in 0..(ring.max - 1)
    /\ ring_full(ring) <=> ring.head = ring.max

\* a write<true> into a full buffer has wrapped to the start
C30_Witness ==
    /\ rlast.op = "write"
    /\ rlast.h = ring.max
    /\ rlast.n > 0
    /\ ring.head = rlast.n

(***************************************************************************)
(* Claims about the moves of the shared pointer of zelix/shared_ptr.h.     *)
(***************************************************************************)
\* no object is released twice and an object is live exactly while a handle
\* owns it
ObjectsFreedOnce ==
    /\ ~objA.bad /\ ~objA.dup /\ ~sbad
    /\ \A p \in Slots : p \in objA.live <=> Owners(p) # {}

\* move-constructing h from an owning o with count k: both own, count k + 1
MoveConstructShares(h, o) ==
    (sp[o].alive /\ sp[o].ptr # NullPtr /\ ~sp[h].alive
        /\ SpMoveConstruct(h, o)) =>
        /\ sp'[h] = sp[o]
        /\ sp'[o] = sp[o]
        /\ rcVal'[sp[o].rc] = rcVal[sp[o].rc] + 1

\* move-assigning h = move(o), o owning: h takes o's object, o is null, and
\* the count of the object changes by delta(h, o)
MoveAssignTransfers(h, o, delta(_, _)) ==
    (h # o /\ sp[h].alive /\ sp[o].alive /\ sp[o].ptr # NullPtr
        /\ SpMoveAssign(h, o)) =>
        /\ sp'[h] = sp[o]
        /\ sp'[o] = NullHandle
        /\ rcVal'[sp[o].rc] = rcVal[sp[o].rc] + delta(h, o)

Unchanged(h, o) == 0
LessTheTargetsShare(h, o) == IF sp[h].rc = sp[o].rc THEN 0 - 1 ELSE 0

\* C31 (as amended): move-constructing q from an owning p with count k
\* leaves both owning with count k + 1; move-assigning q = move(p) leaves q
\* owning p's object and p null, with the count k when q did not share the
\* object with p before and k - 1 when it did; every object is destroyed
\* exactly once, when its last owner goes.
C31_MoveAssignCountsOwners ==
    /\ []ObjectsFreedOnce
    /\ [][ \A h, o \in Handles :
              /\ MoveConstructShares(h, o)
              /\ MoveAssignTransfers(h, o, LessTheTargetsShare) ]_vars

\* C31 witness: of two handles on one object with count 2, one was
\* move-assigned from the other: it owns the object with count 1 and the
\* source is null
C31_Witness ==
    /\ slast = [op |-> "move_assign", k |-> 2]
    /\ \E h, o \in Handles :
        /\ h # o
        /\ sp[h].alive /\ sp[h].ptr # NullPtr /\ rcVal[sp[h].rc] = 1
        /\ sp[o] = NullHandle
        /\ \A t \in Handles \ {h, o} : ~sp[t].alive

\* C31 as stated: move-assigning q = move(p) always leaves the count at k
C31_MoveAssignKeepsCount ==
    /\ []ObjectsFreedOnce
    /\ [][ \A h, o \in Handles :
              /\ MoveConstructShares(h, o)
              /\ MoveAssignTransfers(h, o, Unchanged) ]_vars

RECURSIVE ChainLength(_, _)
ChainLength(n, fuel) ==
    IF n = NoNode \/ fuel = 0 THEN 0 ELSE 1 + ChainLength(dl.nodes[n].next, fuel - 1)

\* C33: a pop_front, pop_back or stack pop on an empty delist leaves size()
\* 0, empty() true and head and tail null; after any sequence of push,
\* emplace, pop and clear size() is the number of nodes reachable from head.
C33_SizeCountsNodes ==
    /\ delist_size(dl) = ChainLength(dl.head, MaxNodes)
    /\ (dllast.op \in {"pop_front", "pop_back", "pop"} /\ dllast.empty) =>
          /\ delist_size(dl) = 0
          /\ delist_empty(dl)
          /\ dl.head = NoNode /\ dl.tail = NoNode

(***************************************************************************)
(* C34: reallocate for a T that is not trivial move-constructs exactly     *)
(* min(old_len, new_len) elements into the new block, in index order, and  *)
(* has run the destructor of each of the old_len old slots exactly once    *)
(* when it releases the old block.                                         *)
(***************************************************************************)
C34_ReallocateDestroysOldSlots ==
    rl.freed =>
        /\ \A k \in 1..rl.new_len :
              rl.new_ptr[k] = IF k <= reallocate_min_len(rl) THEN rl.old[k] ELSE 0
        /\ \A k \in 1..Len(rl.old) : rl.dtor[k] = 1

(***************************************************************************)
(* C35: over construction, push, reserve, c_str, copy assignment and       *)
(* destruction of a string, every buffer is deallocated exactly once, and  *)
(* a deallocated buffer is never read, written or deallocated again.       *)
(***************************************************************************)
C35_BufferFreedOnce ==
    /\ ~sb.uaf
    /\ ~sb.dfree
    /\ (~sb.alive /\ sb.s.buffer) => sb.dangling

(***************************************************************************)
(* C36: over the lifetime of a lazy_allocator with CallDestructors = true  *)
(* the destructor of every object alloc constructed runs exactly once: an  *)
(* object dealloc has destroyed is not destroyed again with its page, and  *)
(* none is left when the allocator is gone.                                *)
(***************************************************************************)
C36_EachObjectDestroyedOnce ==
    /\ ~ld.twice
    /\ ~ld.alive => ld.built = {}

(***************************************************************************)
(* C37: constructing a vector from a non-const lvalue vector hands the     *)
(* storage over: the new vector has the source's data, size and capacity   *)
(* and the source is left with data null, size 0, capacity 0 and not       *)
(* initialized.  Copy assignment leaves the source as it was and gives the *)
(* target the same size and the same elements in storage of its own.       *)
(***************************************************************************)
C37_ConstructTransfersAssignCopies ==
    /\ pvlast.op = "construct_from" =>
          /\ pv.x[pvlast.k].data = pvlast.src.data
          /\ pv.x[pvlast.k].size = pvlast.src.size
          /\ pv.x[pvlast.k].cap = pvlast.src.cap
          /\ pv.x[pvlast.k].elems = pvlast.src.elems
          /\ pv.x[pvlast.o].data = Null
          /\ pv.x[pvlast.o].size = 0
          /\ pv.x[pvlast.o].cap = 0
          /\ ~pv.x[pvlast.o].init
    /\ pvlast.op = "copy_assign" =>
          /\ pv.x[pvlast.o] = pvlast.src
          /\ pv.x[pvlast.k].size = pv.x[pvlast.o].size
          /\ pv.x[pvlast.k].elems = pv.x[pvlast.o].elems
          /\ pv.x[pvlast.k].size > 0 => pv.x[pvlast.k].data # Null
          /\ pv.x[pvlast.k].data # Null =>
                /\ pv.x[pvlast.k].data # pv.x[pvlast.o].data
                /\ pv.x[pvlast.k].data \in LiveIds(pv.h)
                /\ pv.x[pvlast.o].data \in LiveIds(pv.h)

\* C37 witness: a vector that had storage was assigned a vector of two
\* elements and now holds them in another block
C37_Witness ==
    /\ pvlast.op = "copy_assign"
    /\ pvlast.had
    /\ pv.x[pvlast.o].size = 2
    /\ pv.x[pvlast.k].elems = pv.x[pvlast.o].elems
    /\ pv.x[pvlast.k].data # Null

(***************************************************************************)
(* C38: mod(a, b, magic_number(b)) is a % b for every dividend a and every *)
(* divisor b >= 1 of the machine word; in particular it is below b.        *)
(***************************************************************************)
C38_ModIsRemainder ==
    mm.op = "mod" => (mm.r = mm.a % mm.b /\ mm.r < mm.b)

(***************************************************************************)
(* Claims about itoa.                                                      *)
(***************************************************************************)
RECURSIVE DecimalDigits(_)
\* the decimal digits of n >= 0, without leading zeros
DecimalDigits(n) ==
    IF n < 10 THEN <<Zero + n>>
    ELSE Append(DecimalDigits(n \div 10), Zero + (n % 10))

\* the decimal representation of an integer
Decimal(v) == IF v < 0 THEN <<Minus>> \o DecimalDigits(0 - v) ELSE DecimalDigits(v)

\* C39: for every value of the signed integer type, 0, the negative values
\* and the minimum included, itoa returns and has written the decimal
\* representation of the value at the start of the buffer; the length it
\* returns is the length of that representation, at most the 32 bytes of the
\* buffer.
C39_ItoaWritesDecimal ==
    it.op = "itoa" =>
        /\ ~it.trapped
        /\ it.ret = Len(Decimal(it.value))
        /\ it.ret <= IBufferSize
        /\ \A k \in 1..it.ret : it.ptr[k - 1] = Decimal(it.value)[k]
====
